---- MODULE Spec2Model ----
(***************************************************************************)
(* Planning-and-execution pipeline of the agentic event orchestrator:      *)
(* approval gate, booking execution loop, single-item booking tool and     *)
(* itinerary scheduler.                                                    *)
(***************************************************************************)
EXTENDS Integers, Sequences, FiniteSets, TLC

\* ------------------------------------------------------------------------
\* Bounds
\* ------------------------------------------------------------------------
\* longest itinerary handed to the booking loop (SpecBooking)
MaxItems == 2
\* longest itinerary of the run that waits at the approval gate (Spec)
MaxGateItems == 1
\* longest draft plan handed to the scheduler (SpecSched)
MaxDraftItems == 6
\* longest draft plan of the name-matching specification (SpecMatch)
MaxMatchItems == 2
\* longest draft plan of the schema-validation specification (SpecFallback)
MaxFallbackItems == 2
\* longest draft plan the Planning Agent returns in SpecPlanning
MaxPlanningItems == 1
\* most events handed to one dedupe call
MaxDedupeEvents == 3
\* dedupe passes over one list: the call and the call on its output
MaxPasses == 2
\* most events handed to the ranking step
MaxRankEvents == 3

\* ------------------------------------------------------------------------
\* Program constants
\* ------------------------------------------------------------------------
MAX_CHECKOUT_STEPS == 6
MAX_RETRIES == 3
BASE_DELAY_MS == 1100
MAX_ITINERARY_ITEMS == 4
HARD_END_CUTOFF_MINUTES == 23 * 60
MAX_GAP_MINUTES == 45
MAX_PLAN_SPAN_HOURS == 8
SGT_OFFSET_MINUTES == 8 * 60

\* Run ids. "r1" is a run started through POST /api/workflow; "r2" is an id
\* for which no run ever reaches the approval gate.
Runs == {"r1", "r2"}

VARIABLES
    pc,             \* pipeline position of each run
    itinerary,      \* itinerary field of the data flowing through the pipeline
    planWarnings,   \* planWarnings field of the pipeline data
    bookingResults, \* bookingResults field of the pipeline data
    registry,       \* approval registry entry per run id
    promise,        \* deferred approval value per run id
    approved,       \* value awaitApproval read from the deferred value
    resp,           \* HTTP response of the approval endpoint, in flight
    bookable,       \* executeBookings: bookableItems
    nxt,            \* executeBookings: loop index i (1-based, next item to call)
    att,            \* executeBookingTool.execute: one activation per bookable item
    sched,          \* planItineraryTool.execute: arguments, capped plan, result
    disc            \* the discovery-side call under study: its arguments and result

vars == <<pc, itinerary, planWarnings, bookingResults, registry, promise,
          approved, resp, bookable, nxt, att, sched, disc>>

approvalVars == <<registry, promise, resp>>
dataVars == <<itinerary, planWarnings, bookingResults>>
execVars == <<bookable, nxt, att>>

\* ------------------------------------------------------------------------
\* Data
\* ------------------------------------------------------------------------
Undefined == [defined |-> FALSE, list |-> <<>>]
Defined(s) == [defined |-> TRUE, list |-> s]

\* no discovery-side call in progress
DiscIdle == [stage |-> "idle"]

\* event.source / event.sourceUrl / event.bookingRequired of an itinerary item
ItemKinds ==
    { [source |-> "eventbrite", hasUrl |-> TRUE,  bookingRequired |-> TRUE],
      [source |-> "eventbrite", hasUrl |-> TRUE,  bookingRequired |-> FALSE],
      [source |-> "eventbrite", hasUrl |-> FALSE, bookingRequired |-> TRUE],
      [source |-> "planned",    hasUrl |-> TRUE,  bookingRequired |-> FALSE] }

\* An itinerary item: the event id is the position of the item
MkItem(i, kind) ==
    [id |-> i, source |-> kind.source, hasUrl |-> kind.hasUrl,
     bookingRequired |-> kind.bookingRequired]

Itineraries(max) ==
    UNION { { [i \in 1..n |-> MkItem(i, f[i])] : f \in [1..n -> ItemKinds] }
            : n \in 0..max }

MaxOf(a, b) == IF a >= b THEN a ELSE b

NoResp == [id |-> "-", approved |-> "-", code |-> 0]

\* ------------------------------------------------------------------------
\* Approval registry (api/approval-registry): a handle per run id, pending
\* until an external call resolves it once; entries are time-bound.
\* ------------------------------------------------------------------------
hasPendingApproval(id) == registry[id] # "none"

\* return value of resolveApproval(id, b): false on an already-resolved or
\* missing handle
resolveApproval(id) == registry[id] = "pending"

\* waitForApproval(id): registers the handle and returns the deferred value
waitForApproval(id) ==
    /\ registry' = [registry EXCEPT ![id] = "pending"]
    /\ promise' = [promise EXCEPT ![id] = "pending"]

\* time-based eviction of a registry entry
ExpireApproval(id) ==
    /\ registry[id] # "none"
    /\ registry' = [registry EXCEPT ![id] = "none"]
    /\ UNCHANGED <<pc, dataVars, promise, approved, resp, execVars, sched, disc>>

\* ------------------------------------------------------------------------
\* POST /api/workflow/:workflowId/approve
\* ------------------------------------------------------------------------
ApproveStatusNoConflictCheck(id, b) ==
    IF b = "missing" THEN 400
    ELSE IF ~hasPendingApproval(id) THEN 404
    ELSE 200

\* HTTP status the handler answers with
ApproveStatus(id, b) ==
    IF b = "missing" THEN 400
    ELSE IF ~hasPendingApproval(id) THEN 404
    ELSE IF ~resolveApproval(id) THEN 409
    ELSE 200

ApproveEndpoint(id, b) ==
    /\ resp = NoResp
    /\ resp' = [id |-> id, approved |-> b, code |-> ApproveStatus(id, b)]
    /\ IF b # "missing" /\ hasPendingApproval(id) /\ resolveApproval(id)
         THEN /\ registry' = [registry EXCEPT ![id] = "resolved"]
              /\ promise' = [promise EXCEPT ![id] = b]
         ELSE UNCHANGED <<registry, promise>>
    /\ UNCHANGED <<pc, dataVars, approved, execVars, sched, disc>>

\* the HTTP response reaches the caller
DeliverResponse ==
    /\ resp # NoResp
    /\ resp' = NoResp
    /\ UNCHANGED <<pc, dataVars, registry, promise, approved, execVars, sched, disc>>

\* ------------------------------------------------------------------------
\* awaitApproval (workflow step 5)
\* ------------------------------------------------------------------------
\* first half: up to the await on waitForApproval
AwaitApproval(r) ==
    /\ pc[r] = "approval"
    /\ IF ~itinerary[r].defined
         THEN /\ pc' = [pc EXCEPT ![r] = "execution"]
              /\ UNCHANGED <<registry, promise>>
         ELSE /\ waitForApproval(r)
              /\ pc' = [pc EXCEPT ![r] = "awaiting"]
    /\ UNCHANGED <<dataVars, approved, resp, execVars, sched, disc>>

ApprovalOutputKeepsPlan(it, ok) == it

\* itinerary field of the value the step returns
ApprovalOutput(it, ok) == IF ok = "true" THEN it ELSE Undefined

\* second half: the deferred value settled, the step returns
ApprovalResumes(r) ==
    /\ pc[r] = "awaiting"
    /\ promise[r] \in {"true", "false"}
    /\ approved' = [approved EXCEPT ![r] = promise[r]]
    /\ itinerary' = [itinerary EXCEPT ![r] = ApprovalOutput(@, promise[r])]
    /\ planWarnings' =
          [planWarnings EXCEPT ![r] =
              IF promise[r] = "true" THEN @ ELSE Defined(<<"Plan rejected by user">>)]
    /\ bookingResults' = [bookingResults EXCEPT ![r] = Undefined]
    /\ pc' = [pc EXCEPT ![r] = "execution"]
    /\ UNCHANGED <<approvalVars, execVars, sched, disc>>

\* ------------------------------------------------------------------------
\* executeBookingTool.execute: booking of one itinerary item
\* ------------------------------------------------------------------------
\* Keyword phrases checkBlockingConditions looks for in the lowercased snapshot
SoldOutPhrases == {"sold out", "sold_out", "no tickets available"}
WaitlistPhrases ==
    {"join waitlist", "join the waitlist", "waitlist only", "add to waitlist"}
CaptchaPhrases == {"captcha", "recaptcha", "hcaptcha"}
LoginPhrases == {"must sign in", "please log in", "login required"}

\* A page snapshot, as the set of keyword phrases its lowercased text contains
\* ({} also stands for the empty text of a failed snapshot command)
Snapshots ==
    {{}} \cup { {p} : p \in SoldOutPhrases \cup WaitlistPhrases
                            \cup CaptchaPhrases \cup LoginPhrases }
         \cup { {"join waitlist", "captcha"}, {"sold out", "login required"},
                {"recaptcha", "please log in"} }

checkBlockingConditionsNoCaptcha(snapshotLower) ==
    IF snapshotLower \cap SoldOutPhrases # {} THEN "sold_out"
    ELSE IF snapshotLower \cap WaitlistPhrases # {} THEN "waitlist"
    ELSE IF snapshotLower \cap LoginPhrases # {} THEN "login_required"
    ELSE "null"

checkBlockingConditions(snapshotLower) ==
    IF snapshotLower \cap SoldOutPhrases # {} THEN "sold_out"
    ELSE IF snapshotLower \cap WaitlistPhrases # {} THEN "waitlist"
    ELSE IF snapshotLower \cap CaptchaPhrases # {} THEN "captcha_blocked"
    ELSE IF snapshotLower \cap LoginPhrases # {} THEN "login_required"
    ELSE "null"

\* Page text at the confirmation step, as the set of things the patterns of
\* extractConfirmation can find in it:
\*   "order#"   an order number  #(\d{8,15})
\*   "ref:num"  keyword + separator + a reference with a digit or a hyphen
\*   "ref:word" keyword + separator + a purely alphabetic word
\*   "thanks"   one of the success phrases
ConfirmationTexts ==
    { {}, {"order#"}, {"ref:num"}, {"ref:word"}, {"thanks"} }
IframeTexts == { {}, {"ref:num"}, {"thanks"} }

extractConfirmationPhraseless(textOk, mainText, iframeOk, iframeText) ==
    LET allPageText == (IF textOk THEN mainText ELSE {})
                       \cup (IF iframeOk THEN iframeText ELSE {})
    IN  IF allPageText = {} THEN "undefined"
        ELSE IF "order#" \in allPageText THEN "ORDERNUM"
        ELSE IF "ref:num" \in allPageText THEN "REFNUM"
        ELSE IF allPageText # {} THEN "CONFIRMED"
        ELSE "undefined"

\* extractConfirmation: the confirmation string, or "undefined"
extractConfirmation(textOk, mainText, iframeOk, iframeText) ==
    LET allPageText == (IF textOk THEN mainText ELSE {})
                       \cup (IF iframeOk THEN iframeText ELSE {})
    IN  IF allPageText = {} THEN "undefined"
        ELSE IF "order#" \in allPageText THEN "ORDERNUM"
        ELSE IF "ref:num" \in allPageText THEN "REFNUM"
        ELSE IF "thanks" \in allPageText THEN "CONFIRMED"
        ELSE "undefined"

\* Page text compared by the stuck detection ("" also for a failed eval)
PageTexts == {"", "A", "B"}

\* One activation of the tool. Fields of a finished activation are reset.
IdleAtt ==
    [tpc |-> "idle", eventId |-> 0, outcome |-> "none", hasManual |-> FALSE,
     opened |-> FALSE, closes |-> 0, snapped |-> FALSE, snapshot |-> {},
     acted |-> FALSE, step |-> 0, previousPageText |-> "", stuckCount |-> 0,
     filled |-> FALSE, clicked |-> FALSE, submitted |-> FALSE,
     captured |-> FALSE, pageText |-> {},
     actionType |-> "none", status |-> "none", conf |-> "undefined"]

DoneAtt == [IdleAtt EXCEPT !.tpc = "done"]

Return(a, actionType, status) ==
    [a EXCEPT !.tpc = "returned", !.outcome = "result",
              !.actionType = actionType, !.status = status,
              !.previousPageText = "", !.stuckCount = 0, !.hasManual = FALSE]

SetAtt(r, k, a) == att' = [att EXCEPT ![r][k] = a]

InTool(r, k, stage) ==
    /\ pc[r] = "booking"
    /\ k \in 1..Len(bookable[r])
    /\ att[r][k].tpc = stage

\* the guards before the try block
ToolGuards(item) ==
    LET a == [IdleAtt EXCEPT !.eventId = item.id]
    IN  IF ~item.hasUrl THEN Return(a, "info_only", "no_source_url")
        ELSE IF ~item.bookingRequired THEN Return(a, "info_only", "skipped")
        ELSE [a EXCEPT !.tpc = "manual"]

\* steps 1-2: fetchActionManual
FetchActionManual(r, k) ==
    /\ InTool(r, k, "manual")
    /\ \E hasManual \in BOOLEAN :
          SetAtt(r, k, [att[r][k] EXCEPT !.tpc = "open", !.hasManual = hasManual])
    /\ UNCHANGED <<pc, dataVars, approvalVars, approved, bookable, nxt, sched, disc>>

\* step 3: browserOpen; on failure the item is classified page_error
OpenPage(r, k) ==
    /\ InTool(r, k, "open")
    /\ \E success \in BOOLEAN :
          LET a == [att[r][k] EXCEPT !.opened = TRUE]
          IN  SetAtt(r, k, IF success THEN [a EXCEPT !.tpc = "snapshot"]
                           ELSE Return(a, "book", "page_error"))
    /\ UNCHANGED <<pc, dataVars, approvalVars, approved, bookable, nxt, sched, disc>>

\* step 4 and the blocking check of step 5
SnapshotPage(r, k) ==
    /\ InTool(r, k, "snapshot")
    /\ \E pageSnapshot \in Snapshots :
          LET a == [att[r][k] EXCEPT !.snapped = TRUE, !.snapshot = pageSnapshot]
              blockingStatus == checkBlockingConditions(pageSnapshot)
          IN  SetAtt(r, k,
                IF blockingStatus # "null"
                  THEN Return([a EXCEPT !.closes = @ + 1], "book", blockingStatus)
                  ELSE [a EXCEPT !.tpc = "click"])
    /\ UNCHANGED <<pc, dataVars, approvalVars, approved, bookable, nxt, sched, disc>>

\* browserClickByText on the booking phrases, adjustTicketQuantity when it
\* clicked (its increment clicks are further evaluate commands)
ClickBooking(r, k) ==
    /\ InTool(r, k, "click")
    /\ \E bookingClicked \in BOOLEAN :
          LET a == [att[r][k] EXCEPT !.acted = TRUE]
          IN  SetAtt(r, k,
                IF ~bookingClicked /\ ~a.hasManual
                  THEN Return([a EXCEPT !.closes = @ + 1], "info_only",
                              "no_action_manual")
                  ELSE [a EXCEPT !.tpc = "checkout", !.hasManual = FALSE])
    /\ UNCHANGED <<pc, dataVars, approvalVars, approved, bookable, nxt, sched, disc>>

\* runCheckoutLoop: one iteration of the for loop, and the loop exit
CheckoutStep(r, k) ==
    /\ InTool(r, k, "checkout")
    /\ att[r][k].step < MAX_CHECKOUT_STEPS
    /\ \E quickCheck \in {"CONFIRMED", "CONTINUE"}, currentPageText \in PageTexts,
          anyFilled \in BOOLEAN, clickedProceed \in BOOLEAN :
          LET a == att[r][k]
              leave(b) == [b EXCEPT !.tpc = "confirm", !.previousPageText = "",
                                    !.stuckCount = 0]
              same == a.previousPageText # "" /\ currentPageText = a.previousPageText
              stuck == IF same THEN a.stuckCount + 1 ELSE 0
              b == [a EXCEPT !.stuckCount = stuck,
                             !.previousPageText = currentPageText]
              c == [b EXCEPT !.filled = @ \/ anyFilled,
                             !.clicked = @ \/ clickedProceed,
                             !.step = @ + 1]
          IN  SetAtt(r, k,
                IF quickCheck = "CONFIRMED"
                  THEN leave([a EXCEPT !.submitted = TRUE])
                ELSE IF same /\ stuck >= 2 THEN leave(a)
                ELSE IF ~anyFilled /\ ~clickedProceed THEN leave(c)
                ELSE IF c.step >= MAX_CHECKOUT_STEPS THEN leave(c)
                ELSE c)
    /\ UNCHANGED <<pc, dataVars, approvalVars, approved, bookable, nxt, sched, disc>>

\* steps 6-7 and the final status
CaptureConfirmation(r, k) ==
    /\ InTool(r, k, "confirm")
    /\ \E textOk \in BOOLEAN, iframeOk \in BOOLEAN,
          mainText \in ConfirmationTexts, iframeText \in IframeTexts :
          LET confirmationNumber ==
                  extractConfirmation(textOk, mainText, iframeOk, iframeText)
              hasConfirmation == confirmationNumber # "undefined"
              a == [att[r][k] EXCEPT
                       !.closes = @ + 1, !.captured = TRUE,
                       !.conf = confirmationNumber,
                       !.pageText = (IF textOk THEN mainText ELSE {})
                                    \cup (IF iframeOk THEN iframeText ELSE {})]
          IN  SetAtt(r, k, Return(a, "book",
                                  IF hasConfirmation THEN "success" ELSE "failed"))
    /\ UNCHANGED <<pc, dataVars, approvalVars, approved, bookable, nxt, sched, disc>>

\* the catch block: an error thrown inside the try block
ToolCatch(r, k) ==
    /\ \E stage \in {"manual", "open", "snapshot", "click", "checkout", "confirm"} :
          InTool(r, k, stage)
    /\ SetAtt(r, k, Return([att[r][k] EXCEPT !.closes = @ + 1], "book", "failed"))
    /\ UNCHANGED <<pc, dataVars, approvalVars, approved, bookable, nxt, sched, disc>>

\* ------------------------------------------------------------------------
\* executeBookings (workflow step 6)
\* ------------------------------------------------------------------------
Bookable(item) == item.source # "planned" /\ item.hasUrl

RECURSIVE Filter(_, _)
Filter(s, i) ==
    IF i > Len(s) THEN <<>>
    ELSE (IF Bookable(s[i]) THEN <<s[i]>> ELSE <<>>) \o Filter(s, i + 1)

PassThroughEmptyOnly(it) == it.defined /\ Len(it.list) = 0

\* "no itinerary or it was rejected, pass through"
PassThrough(it) == ~it.defined \/ Len(it.list) = 0

\* entry of the step, up to the booking loop
ExecuteBookings(r) ==
    /\ pc[r] = "execution"
    /\ IF PassThrough(itinerary[r])
         THEN /\ pc' = [pc EXCEPT ![r] = "finished"]
              /\ UNCHANGED <<bookingResults, execVars>>
         ELSE LET bookableItems == Filter(itinerary[r].list, 1)
              IN  IF Len(bookableItems) = 0
                    THEN /\ pc' = [pc EXCEPT ![r] = "finished"]
                         /\ bookingResults' =
                               [bookingResults EXCEPT ![r] = Defined(<<>>)]
                         /\ UNCHANGED execVars
                    ELSE /\ pc' = [pc EXCEPT ![r] = "booking"]
                         /\ bookable' = [bookable EXCEPT ![r] = bookableItems]
                         /\ bookingResults' =
                               [bookingResults EXCEPT ![r] = Defined(<<>>)]
                         /\ nxt' = [nxt EXCEPT ![r] = 1]
                         /\ UNCHANGED att
    /\ UNCHANGED <<itinerary, planWarnings, approvalVars, approved, sched, disc>>

PreviousSettledNoAwait(r) == TRUE

\* the await on the tool call: iteration i starts after the calls of the
\* earlier iterations have settled and their results are pushed
PreviousSettled(r) ==
    \A j \in 1..(nxt[r] - 1) : att[r][j].tpc = "done"

\* loop body: the call of executeBookingTool.execute for item i
CallTool(r) ==
    /\ pc[r] = "booking"
    /\ nxt[r] <= Len(bookable[r])
    /\ PreviousSettled(r)
    /\ \E outcome \in {"run", "invalid", "throw"} :
          LET item == bookable[r][nxt[r]]
              a == [IdleAtt EXCEPT !.eventId = item.id, !.tpc = "returned",
                                   !.outcome = outcome]
          IN  SetAtt(r, nxt[r], IF outcome = "run" THEN ToolGuards(item) ELSE a)
    /\ nxt' = [nxt EXCEPT ![r] = @ + 1]
    /\ UNCHANGED <<pc, dataVars, approvalVars, approved, bookable, sched, disc>>

FailedEntry(item) ==
    [eventId |-> item.id, actionType |-> "book", status |-> "failed",
     conf |-> "undefined"]

ResultEntriesLoseThrown(a, item) ==
    IF a.outcome = "throw" THEN <<>>
    ELSE IF a.outcome = "invalid" THEN <<FailedEntry(item)>>
    ELSE << [eventId |-> a.eventId, actionType |-> a.actionType,
             status |-> a.status, conf |-> a.conf] >>

\* what the loop body pushes for a settled tool call: the mapped result, or
\* a failed entry for a validation error or a thrown error
ResultEntries(a, item) ==
    IF a.outcome \in {"invalid", "throw"} THEN <<FailedEntry(item)>>
    ELSE << [eventId |-> a.eventId, actionType |-> a.actionType,
             status |-> a.status, conf |-> a.conf] >>

\* loop body after the await: the result of item k is pushed
PushResult(r, k) ==
    /\ InTool(r, k, "returned")
    /\ bookingResults' =
          [bookingResults EXCEPT ![r] =
              Defined(@.list \o ResultEntries(att[r][k], bookable[r][k]))]
    /\ SetAtt(r, k, DoneAtt)
    /\ UNCHANGED <<pc, itinerary, planWarnings, approvalVars, approved, bookable, nxt, sched, disc>>

\* the loop ends, the step returns
FinishBookings(r) ==
    /\ pc[r] = "booking"
    /\ nxt[r] > Len(bookable[r])
    /\ PreviousSettled(r)
    /\ pc' = [pc EXCEPT ![r] = "finished"]
    /\ UNCHANGED <<dataVars, approvalVars, approved, execVars, sched, disc>>

\* ------------------------------------------------------------------------
\* planItineraryTool (the scheduler): time helpers
\* ------------------------------------------------------------------------
\* An "HH:MM" string is the record of its two numbers; an ISO datetime is a
\* UTC day number with hour and minute.
HHMM(h, m) == [h |-> h, m |-> m]

ISO(day, h, m) == [day |-> day, h |-> h, m |-> m]

MinutesPerDay == 24 * 60

parseTimeHoursOnly(time) == time.h * 60

\* Parse HH:MM string into minutes since midnight
parseTime(time) == time.h * 60 + time.m

\* Format minutes since midnight back to HH:MM
formatTime(minutes) == HHMM((minutes \div 60) % 24, minutes % 60)

\* Extract HH:MM (SGT) from an ISO datetime
extractTimeFromISO(isoString) ==
    LET utcMinutes == isoString.h * 60 + isoString.m
        sgtMinutes == (utcMinutes + SGT_OFFSET_MINUTES) % MinutesPerDay
    IN  formatTime(sgtMinutes)

\* Build an ISO datetime from a date and an HH:MM time in SGT
buildDatetime(date, timeStr) ==
    LET sgtMinutes == timeStr.h * 60 + timeStr.m
        utcMinutes == sgtMinutes - SGT_OFFSET_MINUTES
        wrapped == utcMinutes + MinutesPerDay
    IN  IF utcMinutes < 0
          THEN ISO(date - 1, wrapped \div 60, wrapped % 60)
          ELSE ISO(date, utcMinutes \div 60, utcMinutes % 60)

\* new Date(iso).getTime(), in minutes
getTime(iso) == (iso.day * 24 + iso.h) * 60 + iso.m

\* ------------------------------------------------------------------------
\* Scheduler: event names and fuzzy matching
\* ------------------------------------------------------------------------
\* A name is its sequence of words with the way it is written: "plain"
\* (lowercase, no punctuation), "caps" (differs in letter case only) or
\* "punct" (carries punctuation that normalize strips).
Name(words, style) == [words |-> words, style |-> style]

lowerTrim(name) ==
    [name EXCEPT !.style = IF @ = "caps" THEN "plain" ELSE @]

normalize(name) == name.words

\* a.includes(b) on normalized names, word by word
includes(a, b) ==
    \E i \in 0..(Len(a) - Len(b)) :
       \A j \in 1..Len(b) : a[i + j] = b[j]

ShortWords == {"at", "of"}

\* the words longer than two characters, as a set
longWords(norm) == { norm[i] : i \in { j \in 1..Len(norm) : norm[j] \notin ShortWords } }

Max3(a, b, c) == MaxOf(MaxOf(a, b), c)

\* the Map built from the ranked events: insertion order, a later event with
\* the same key replaces the value of the earlier entry
RECURSIVE buildEventsByName(_, _, _)
buildEventsByName(ranked, i, map) ==
    IF i > Len(ranked) THEN map
    ELSE LET key == lowerTrim(ranked[i].name)
             at == { j \in 1..Len(map) : map[j].key = key }
         IN  buildEventsByName(ranked, i + 1,
                IF at = {}
                  THEN Append(map, [key |-> key, val |-> i])
                  ELSE [j \in 1..Len(map) |->
                          IF j \in at THEN [key |-> key, val |-> i] ELSE map[j]])

\* strategy 4: best word overlap of at least 60%
RECURSIVE bestOverlapMatch(_, _, _, _, _)
bestOverlapMatch(llmWords, map, i, bestOverlap, bestMatch) ==
    IF i > Len(map) THEN bestMatch
    ELSE LET keyWords == longWords(normalize(map[i].key))
             overlap == Cardinality(llmWords \cap keyWords)
             denom == Max3(Cardinality(llmWords), Cardinality(keyWords), 1)
         IN  IF overlap * 10 >= 6 * denom /\ overlap > bestOverlap
               THEN bestOverlapMatch(llmWords, map, i + 1, overlap, map[i].val)
               ELSE bestOverlapMatch(llmWords, map, i + 1, bestOverlap, bestMatch)

\* index into rankedEvents of the matched event, 0 for undefined
fuzzyMatchEvent(llmName, eventsByName) ==
    LET llmNorm == normalize(llmName)
        exact == { j \in 1..Len(eventsByName) :
                      eventsByName[j].key = lowerTrim(llmName) }
        normEq == { j \in 1..Len(eventsByName) :
                      normalize(eventsByName[j].key) = llmNorm }
        contain == { j \in 1..Len(eventsByName) :
                      \/ includes(llmNorm, normalize(eventsByName[j].key))
                      \/ includes(normalize(eventsByName[j].key), llmNorm) }
        first(S) == eventsByName[CHOOSE j \in S : \A k \in S : j <= k].val
    IN  IF exact # {} THEN first(exact)
        ELSE IF normEq # {} THEN first(normEq)
        ELSE IF contain # {} THEN first(contain)
        ELSE bestOverlapMatch(longWords(llmNorm), eventsByName, 1, 0, 0)

\* ------------------------------------------------------------------------
\* Scheduler: item cap, conversion, validation
\* ------------------------------------------------------------------------
\* Array.prototype.sort with a numeric comparator on integer keys: a stable
\* sort. The elements are <<key, value>> pairs.
RECURSIVE insertByKey(_, _)
insertByKey(sorted, p) ==
    IF sorted = <<>> THEN <<p>>
    ELSE IF Head(sorted)[1] <= p[1]
      THEN <<Head(sorted)>> \o insertByKey(Tail(sorted), p)
      ELSE <<p>> \o sorted

RECURSIVE sortByKey(_)
sortByKey(pairs) ==
    IF pairs = <<>> THEN <<>>
    ELSE insertByKey(sortByKey(SubSeq(pairs, 1, Len(pairs) - 1)), pairs[Len(pairs)])

MinOf(a, b) == IF a <= b THEN a ELSE b

applyItemCapFirstItems(items) ==
    IF Len(items) <= MAX_ITINERARY_ITEMS THEN [items |-> items, warnings |-> <<>>]
    ELSE [items |-> SubSeq(items, 1, MAX_ITINERARY_ITEMS),
          warnings |-> <<"Item cap">>]

\* keep all main events, fill remaining slots with complementary activities
applyItemCap(items) ==
    IF Len(items) <= MAX_ITINERARY_ITEMS THEN [items |-> items, warnings |-> <<>>]
    ELSE LET mainItems == SelectSeq(items, LAMBDA i : i.isMainEvent)
             complementaryItems == SelectSeq(items, LAMBDA i : ~i.isMainEvent)
             remainingSlots == MAX_ITINERARY_ITEMS - Len(mainItems)
             trimmedItems ==
                 mainItems \o SubSeq(complementaryItems, 1,
                                     MinOf(Len(complementaryItems),
                                           MaxOf(0, remainingSlots)))
             keyed == [k \in 1..Len(trimmedItems) |->
                          <<parseTime(trimmedItems[k].startTime), trimmedItems[k]>>]
             sorted == sortByKey(keyed)
         IN  [items |-> [k \in 1..Len(sorted) |-> sorted[k][2]],
              warnings |-> <<"Item cap">>]

\* "https://www.google.com/search?q=" followed by the encoded item name and
\* " Singapore": never blank, whatever the name
googleSearchUrl(name) == "https://www.google.com/search?q="

\* the Event synthesized from the draft item when no real event matched; the
\* optional sourceUrl of the draft item is a field that may be absent
generatedEvent(item, startDatetime, endDatetime) ==
    [id |-> "generated", name |-> item.name,
     timeSlot |-> [start |-> startDatetime, end |-> endDatetime],
     source |-> IF item.isMainEvent THEN "discovered" ELSE "planned",
     sourceUrl |-> IF "sourceUrl" \in DOMAIN item THEN item.sourceUrl
                   ELSE googleSearchUrl(item.name),
     priceMax |-> item.estimatedCostPerPerson]

useRealTimesNever(item, matchedReal) == FALSE

\* "if (matchedReal && item.isMainEvent)": the real time slot is forced
useRealTimes(item, matchedReal) == matchedReal # 0 /\ item.isMainEvent

\* matchedReal is an index into rankedEvents, 0 for undefined; prevEndMinutes
\* is <<>> for null. The result carries the warnings pushed; dropped is the
\* null return.
convertLLMItemToItineraryItem(item, index, matchedReal, date, rankedEvents, prevEndMinutes) ==
    LET corrected == useRealTimes(item, matchedReal)
        real == rankedEvents[matchedReal]
        startDatetime == IF corrected THEN real.timeSlot.start
                         ELSE buildDatetime(date, item.startTime)
        endDatetime == IF corrected THEN real.timeSlot.end
                       ELSE buildDatetime(date, item.endTime)
        wCorrection ==
            IF corrected /\ (\/ item.startTime # extractTimeFromISO(real.timeSlot.start)
                             \/ item.endTime # extractTimeFromISO(real.timeSlot.end))
              THEN <<"Time correction">> ELSE <<>>
        event == IF matchedReal # 0 THEN real
                 ELSE generatedEvent(item, startDatetime, endDatetime)
        travelMinutes == item.travelMinutes
        actualStartTime == IF corrected THEN extractTimeFromISO(startDatetime)
                           ELSE item.startTime
        actualEndTime == IF corrected THEN extractTimeFromISO(endDatetime)
                         ELSE item.endTime
        startMinutes == parseTime(actualStartTime)
        gap == startMinutes - prevEndMinutes[1]
        wGap == IF prevEndMinutes = <<>> THEN <<>>
                ELSE IF gap < 0 THEN <<"Time overlap">>
                ELSE IF gap < 5 /\ travelMinutes > 0 THEN <<"Tight transition">>
                ELSE IF gap > MAX_GAP_MINUTES THEN <<"Excessive gap">>
                ELSE <<>>
        endMinutes == parseTime(actualEndTime)
        itineraryItem ==
            [index |-> index, draft |-> item.draft, event |-> event,
             scheduledTime |-> [start |-> startDatetime, end |-> endDatetime],
             travelTimeFromPrevious |-> travelMinutes]
    IN  IF endMinutes > HARD_END_CUTOFF_MINUTES /\ ~item.isMainEvent
          THEN [dropped |-> TRUE, itineraryItem |-> itineraryItem,
                endMinutes |-> endMinutes,
                warnings |-> wCorrection \o wGap \o <<"Dropped">>]
          ELSE [dropped |-> FALSE, itineraryItem |-> itineraryItem,
                endMinutes |-> endMinutes,
                warnings |-> wCorrection \o wGap \o
                    (IF endMinutes > HARD_END_CUTOFF_MINUTES /\ item.isMainEvent
                       THEN <<"Main event past cutoff">> ELSE <<>>)]

\* sort chronologically and warn when the plan span is too long
validateTimeSequencing(items) ==
    LET keyed == [k \in 1..Len(items) |->
                     <<getTime(items[k].scheduledTime.start), items[k]>>]
        sorted == sortByKey(keyed)
        result == [k \in 1..Len(sorted) |-> sorted[k][2]]
        spanMinutes == getTime(result[Len(result)].scheduledTime.end)
                       - getTime(result[1].scheduledTime.start)
    IN  [items |-> result,
         warnings |-> IF Len(result) >= 2 /\ spanMinutes > MAX_PLAN_SPAN_HOURS * 60
                        THEN <<"Plan span too long">> ELSE <<>>]

validateBudgetFromTwentyPercent(totalCostPerPerson, budgetMax) ==
    IF budgetMax = <<>> THEN <<>>
    ELSE IF totalCostPerPerson * 10 >= budgetMax[1] * 12 THEN <<"Budget overrun">>
    ELSE IF totalCostPerPerson > budgetMax[1] THEN <<"Slightly over budget">>
    ELSE <<>>

\* budgetMax is <<>> for undefined; 1.2 * budgetMax compared in tenths
validateBudget(totalCostPerPerson, budgetMax) ==
    IF budgetMax = <<>> THEN <<>>
    ELSE IF totalCostPerPerson * 10 > budgetMax[1] * 12 THEN <<"Budget overrun">>
    ELSE IF totalCostPerPerson > budgetMax[1] THEN <<"Slightly over budget">>
    ELSE <<>>

\* the fallback when the draft fails schema validation
buildFallbackItinerary(rankedEvents) ==
    LET top == SubSeq(rankedEvents, 1, MinOf(1, Len(rankedEvents)))
        fallbackItems ==
            [i \in 1..Len(top) |->
                [index |-> i - 1, draft |-> 0, event |-> top[i],
                 scheduledTime |-> top[i].timeSlot, travelTimeFromPrevious |-> 0]]
    IN  [itinerary |-> [items |-> fallbackItems,
                        totalCost |-> IF Len(top) = 0 THEN 0 ELSE top[1].priceMax,
                        totalDuration |-> 0],
         planMetadata |-> [budgetStatus |-> "within_budget",
                           totalEstimatedCostPerPerson |-> 0,
                           itemCount |-> Len(fallbackItems),
                           mainEventCount |-> Len(fallbackItems),
                           generatedActivityCount |-> 0],
         warnings |-> <<"LLM plan validation failed">>]

schemaValidNonEmptyOnly(rawPlan) == Len(rawPlan.items) >= 1

\* LLMPlanSchema.parse: the items array has at least one element, and the
\* duration and cost of each item are not negative
schemaValid(rawPlan) ==
    /\ Len(rawPlan.items) >= 1
    /\ \A i \in 1..Len(rawPlan.items) :
          /\ rawPlan.items[i].durationMinutes >= 0
          /\ rawPlan.items[i].estimatedCostPerPerson >= 0

\* Step 3 of execute: the conversion loop over plan.items from index i
RECURSIVE convertItems(_, _, _, _, _, _)
convertItems(items, i, eventsByName, rankedEvents, date, acc) ==
    IF i > Len(items) THEN acc
    ELSE LET item == items[i]
             matchedReal == IF item.isMainEvent
                              THEN fuzzyMatchEvent(item.name, eventsByName) ELSE 0
             wUnmatched == IF item.isMainEvent /\ matchedReal = 0
                             THEN <<"Unmatched main event">> ELSE <<>>
             result == convertLLMItemToItineraryItem(
                          item, i - 1, matchedReal, date, rankedEvents,
                          acc.prevEndMinutes)
             warnings == acc.warnings \o wUnmatched \o result.warnings
         IN  convertItems(items, i + 1, eventsByName, rankedEvents, date,
                IF result.dropped
                  THEN [acc EXCEPT !.warnings = warnings]
                  ELSE [itineraryItems |->
                            Append(acc.itineraryItems, result.itineraryItem),
                        totalCostPerPerson |->
                            acc.totalCostPerPerson + item.estimatedCostPerPerson,
                        totalDurationMinutes |->
                            acc.totalDurationMinutes + item.durationMinutes
                              + item.travelMinutes,
                        prevEndMinutes |-> <<result.endMinutes>>,
                        warnings |-> warnings])

\* planItineraryTool.execute
execute(rawPlan, rankedEvents, date, budgetMax, partySize) ==
    IF ~schemaValid(rawPlan) THEN buildFallbackItinerary(rankedEvents)
    ELSE
    LET eventsByName == buildEventsByName(rankedEvents, 1, <<>>)
        capped == applyItemCap(rawPlan.items)
        converted == convertItems(capped.items, 1, eventsByName, rankedEvents, date,
                        [itineraryItems |-> <<>>, totalCostPerPerson |-> 0,
                         totalDurationMinutes |-> 0, prevEndMinutes |-> <<>>,
                         warnings |-> capped.warnings])
        sequenced == validateTimeSequencing(converted.itineraryItems)
        itineraryItems == sequenced.items
        totalCostPerPerson == converted.totalCostPerPerson
        mainEventCount ==
            Len(SelectSeq(itineraryItems, LAMBDA it : it.event.source # "planned"))
    IN  [itinerary |-> [items |-> itineraryItems,
                        totalCost |-> totalCostPerPerson * partySize,
                        totalDuration |-> converted.totalDurationMinutes],
         planMetadata |-> [budgetStatus |-> rawPlan.budgetStatus,
                           totalEstimatedCostPerPerson |-> totalCostPerPerson,
                           itemCount |-> Len(itineraryItems),
                           mainEventCount |-> mainEventCount,
                           generatedActivityCount |->
                               Len(itineraryItems) - mainEventCount],
         warnings |-> converted.warnings \o sequenced.warnings
                      \o validateBudget(totalCostPerPerson, budgetMax)]

\* ------------------------------------------------------------------------
\* Scheduler inputs and the specification of one tool call
\* ------------------------------------------------------------------------
\* Ranked events of the previous step: "Jazz Night" 20:00-22:00 SGT and
\* "comedy at the club" 19:00-20:30 SGT on the itinerary date
RankedEvents ==
    << [id |-> "ev-1", name |-> Name(<<"jazz", "night">>, "caps"),
        timeSlot |-> [start |-> ISO(1, 12, 0), end |-> ISO(1, 14, 0)],
        source |-> "eventbrite", priceMax |-> 40,
        sourceUrl |-> "https://www.eventbrite.sg/e/jazz-night"],
       [id |-> "ev-2", name |-> Name(<<"comedy", "at", "the", "club">>, "plain"),
        timeSlot |-> [start |-> ISO(1, 11, 0), end |-> ISO(1, 12, 30)],
        source |-> "eventfinda", priceMax |-> 35,
        sourceUrl |-> "https://www.eventfinda.sg/comedy-at-the-club"] >>

\* Draft items the planning agent can return (name, isMainEvent, times, cost)
DraftKinds ==
    { [name |-> Name(<<"jazz", "night">>, "plain"), isMainEvent |-> TRUE,
       startTime |-> HHMM(19, 0), endTime |-> HHMM(21, 0),
       durationMinutes |-> 120, estimatedCostPerPerson |-> 40, travelMinutes |-> 0],
      [name |-> Name(<<"secret", "gig">>, "plain"), isMainEvent |-> TRUE,
       startTime |-> HHMM(21, 30), endTime |-> HHMM(23, 30),
       durationMinutes |-> 120, estimatedCostPerPerson |-> 30, travelMinutes |-> 15],
      [name |-> Name(<<"dinner">>, "plain"), isMainEvent |-> FALSE,
       startTime |-> HHMM(18, 0), endTime |-> HHMM(19, 0),
       durationMinutes |-> 60, estimatedCostPerPerson |-> 25, travelMinutes |-> 10],
      [name |-> Name(<<"late", "drinks">>, "plain"), isMainEvent |-> FALSE,
       startTime |-> HHMM(22, 30), endTime |-> HHMM(23, 30),
       durationMinutes |-> 60, estimatedCostPerPerson |-> 15, travelMinutes |-> 5],
      [name |-> Name(<<"coffee">>, "plain"), isMainEvent |-> FALSE,
       startTime |-> HHMM(16, 0), endTime |-> HHMM(16, 45),
       durationMinutes |-> 45, estimatedCostPerPerson |-> 5, travelMinutes |-> 0] }

\* the draft item at position pos of the agent's items array
MkDraftItem(pos, kind) ==
    [draft |-> pos, name |-> kind.name, isMainEvent |-> kind.isMainEvent,
     startTime |-> kind.startTime, endTime |-> kind.endTime,
     durationMinutes |-> kind.durationMinutes,
     estimatedCostPerPerson |-> kind.estimatedCostPerPerson,
     travelMinutes |-> kind.travelMinutes]

\* the items array made of the given kinds
Draft(kinds) == [i \in DOMAIN kinds |-> MkDraftItem(i, kinds[i])]

NoResult ==
    [itinerary |-> [items |-> <<>>, totalCost |-> 0, totalDuration |-> 0],
     planMetadata |-> [budgetStatus |-> "none", totalEstimatedCostPerPerson |-> 0,
                       itemCount |-> 0, mainEventCount |-> 0,
                       generatedActivityCount |-> 0],
     warnings |-> <<>>]

\* no tool call in progress
SchedIdle ==
    [stage |-> "idle", llmPlan |-> [items |-> <<>>, budgetStatus |-> "none"],
     rankedEvents |-> <<>>, date |-> 0, budgetMax |-> <<>>, partySize |-> 0,
     plan |-> <<>>, result |-> NoResult]

\* one call of planItineraryTool.execute; plan is the plan after the item cap
PlanItineraryTool ==
    /\ sched.stage = "input"
    /\ sched' =
          [sched EXCEPT
              !.stage = "done",
              !.plan = IF schemaValid(sched.llmPlan)
                         THEN applyItemCap(sched.llmPlan.items).items ELSE <<>>,
              !.result = execute(sched.llmPlan, sched.rankedEvents, sched.date,
                                 sched.budgetMax, sched.partySize)]
    /\ UNCHANGED <<pc, dataVars, approvalVars, approved, execVars, disc>>

InitSched ==
    /\ pc = [r \in Runs |-> "absent"]
    /\ itinerary = [r \in Runs |-> Undefined]
    /\ planWarnings = [r \in Runs |-> Undefined]
    /\ bookingResults = [r \in Runs |-> Undefined]
    /\ registry = [r \in Runs |-> "none"]
    /\ promise = [r \in Runs |-> "none"]
    /\ approved = [r \in Runs |-> "none"]
    /\ resp = NoResp
    /\ bookable = [r \in Runs |-> <<>>]
    /\ nxt = [r \in Runs |-> 1]
    /\ att = [r \in Runs |-> [k \in 1..MaxOf(MaxItems, MaxGateItems) |-> IdleAtt]]
    /\ disc = DiscIdle
    /\ \E n \in 0..MaxDraftItems : \E kinds \in [1..n -> DraftKinds] :
          sched = [stage |-> "input",
                   llmPlan |-> [items |-> Draft(kinds),
                                budgetStatus |-> "within_budget"],
                   rankedEvents |-> RankedEvents, date |-> 1,
                   budgetMax |-> <<50>>, partySize |-> 2,
                   plan |-> <<>>, result |-> NoResult]

NextSched == PlanItineraryTool

SpecSched == InitSched /\ [][NextSched]_vars

\* ------------------------------------------------------------------------
\* Specification of one tool call on short drafts whose items vary in name,
\* main-event flag and proposed times
\* ------------------------------------------------------------------------
\* "Jazz Night", "Jazz Night!", "jazz", "comedy club", "secret gig", ""
MatchNames ==
    { Name(<<"jazz", "night">>, "caps"), Name(<<"jazz", "night">>, "punct"),
      Name(<<"jazz">>, "plain"), Name(<<"comedy", "club">>, "plain"),
      Name(<<"secret", "gig">>, "plain"), Name(<<>>, "plain") }

\* proposed start and end: 19:00-21:00, 20:00-22:00 (the slot of ev-1),
\* 22:00-23:30 (ends past the cutoff) and 22:30-00:30 (ends after midnight)
MatchTimes ==
    { [startTime |-> HHMM(19, 0), endTime |-> HHMM(21, 0)],
      [startTime |-> HHMM(20, 0), endTime |-> HHMM(22, 0)],
      [startTime |-> HHMM(22, 0), endTime |-> HHMM(23, 30)],
      [startTime |-> HHMM(22, 30), endTime |-> HHMM(0, 30)] }

MatchKinds ==
    { [name |-> n, isMainEvent |-> b, startTime |-> t.startTime,
       endTime |-> t.endTime, durationMinutes |-> 120,
       estimatedCostPerPerson |-> 30, travelMinutes |-> 10]
      : n \in MatchNames, b \in BOOLEAN, t \in MatchTimes }

InitMatch ==
    /\ pc = [r \in Runs |-> "absent"]
    /\ itinerary = [r \in Runs |-> Undefined]
    /\ planWarnings = [r \in Runs |-> Undefined]
    /\ bookingResults = [r \in Runs |-> Undefined]
    /\ registry = [r \in Runs |-> "none"]
    /\ promise = [r \in Runs |-> "none"]
    /\ approved = [r \in Runs |-> "none"]
    /\ resp = NoResp
    /\ bookable = [r \in Runs |-> <<>>]
    /\ nxt = [r \in Runs |-> 1]
    /\ att = [r \in Runs |-> [k \in 1..MaxOf(MaxItems, MaxGateItems) |-> IdleAtt]]
    /\ disc = DiscIdle
    /\ \E n \in 1..MaxMatchItems : \E kinds \in [1..n -> MatchKinds] :
          sched = [stage |-> "input",
                   llmPlan |-> [items |-> Draft(kinds),
                                budgetStatus |-> "within_budget"],
                   rankedEvents |-> RankedEvents, date |-> 1,
                   budgetMax |-> <<50>>, partySize |-> 2,
                   plan |-> <<>>, result |-> NoResult]

SpecMatch == InitMatch /\ [][NextSched]_vars

\* ------------------------------------------------------------------------
\* Specification of one tool call on drafts that may fail schema validation,
\* for each order of the ranked events
\* ------------------------------------------------------------------------
\* two valid items, one with a negative cost, one with a negative duration
FallbackKinds ==
    { [name |-> Name(<<"jazz", "night">>, "caps"), isMainEvent |-> TRUE,
       startTime |-> HHMM(19, 0), endTime |-> HHMM(21, 0),
       durationMinutes |-> 120, estimatedCostPerPerson |-> 40, travelMinutes |-> 0],
      [name |-> Name(<<"dinner">>, "plain"), isMainEvent |-> FALSE,
       startTime |-> HHMM(18, 0), endTime |-> HHMM(19, 0),
       durationMinutes |-> 60, estimatedCostPerPerson |-> 25, travelMinutes |-> 10],
      [name |-> Name(<<"dinner">>, "plain"), isMainEvent |-> FALSE,
       startTime |-> HHMM(18, 0), endTime |-> HHMM(19, 0),
       durationMinutes |-> 60, estimatedCostPerPerson |-> -5, travelMinutes |-> 10],
      [name |-> Name(<<"coffee">>, "plain"), isMainEvent |-> FALSE,
       startTime |-> HHMM(16, 45), endTime |-> HHMM(16, 0),
       durationMinutes |-> -45, estimatedCostPerPerson |-> 5, travelMinutes |-> 0] }

\* the ranked lists of at least one event (the planning step does not call
\* the tool without a ranked event)
RankedLists ==
    { <<RankedEvents[1]>>, <<RankedEvents[2]>>,
      <<RankedEvents[1], RankedEvents[2]>>, <<RankedEvents[2], RankedEvents[1]>> }

InitFallback ==
    /\ pc = [r \in Runs |-> "absent"]
    /\ itinerary = [r \in Runs |-> Undefined]
    /\ planWarnings = [r \in Runs |-> Undefined]
    /\ bookingResults = [r \in Runs |-> Undefined]
    /\ registry = [r \in Runs |-> "none"]
    /\ promise = [r \in Runs |-> "none"]
    /\ approved = [r \in Runs |-> "none"]
    /\ resp = NoResp
    /\ bookable = [r \in Runs |-> <<>>]
    /\ nxt = [r \in Runs |-> 1]
    /\ att = [r \in Runs |-> [k \in 1..MaxOf(MaxItems, MaxGateItems) |-> IdleAtt]]
    /\ disc = DiscIdle
    /\ \E n \in 0..MaxFallbackItems : \E kinds \in [1..n -> FallbackKinds] :
       \E ranked \in RankedLists :
          sched = [stage |-> "input",
                   llmPlan |-> [items |-> Draft(kinds),
                                budgetStatus |-> "within_budget"],
                   rankedEvents |-> ranked, date |-> 1,
                   budgetMax |-> <<50>>, partySize |-> 2,
                   plan |-> <<>>, result |-> NoResult]

SpecFallback == InitFallback /\ [][NextSched]_vars

\* ------------------------------------------------------------------------
\* The planning step: the Planning Agent writes a draft, the step parses it
\* and hands it to planItineraryTool
\* ------------------------------------------------------------------------
\* what planAgent.generate does: it throws, or returns a text that is a JSON
\* object, a JSON object inside markdown fencing, the JSON literal null,
\* prose without braces, or braces that are not JSON
AgentOutcomes == {"throws", "json", "fenced", "null", "prose", "broken"}

\* JSON.parse(text) of the agent's text: <<value>> or <<>> when it throws
jsonParse(outcome, plan) ==
    CASE outcome = "json" -> <<Defined(plan)>>
      [] outcome = "null" -> <<Undefined>>
      [] OTHER -> <<>>

\* text.match(/\{[\s\S]*\}/) followed by JSON.parse of the match
extractJson(outcome, plan) ==
    IF outcome = "fenced" THEN <<Defined(plan)>> ELSE <<>>

\* llmPlan after the try/catch blocks around generate and JSON.parse;
\* Undefined stands for undefined and for the falsy null
parseAgentResponse(outcome, plan) ==
    IF outcome = "throws" THEN Undefined
    ELSE IF jsonParse(outcome, plan) # <<>> THEN jsonParse(outcome, plan)[1]
    ELSE IF extractJson(outcome, plan) # <<>> THEN extractJson(outcome, plan)[1]
    ELSE Undefined

\* the step's output when no itinerary is produced
NoItinerary(warnings) ==
    [hasItinerary |-> FALSE, itinerary |-> NoResult.itinerary,
     planMetadata |-> NoResult.planMetadata, planWarnings |-> warnings]

\* planItinerary: itinerary, planMetadata and planWarnings of the step's output
planItinerary(outcome, plan, rankedEvents, date, budgetMax, partySize) ==
    IF Len(rankedEvents) = 0 THEN NoItinerary(<<>>)
    ELSE LET llmPlan == parseAgentResponse(outcome, plan)
         IN  IF llmPlan.defined
             THEN LET toolResult == execute(llmPlan.list, rankedEvents, date,
                                            budgetMax, partySize)
                  IN  [hasItinerary |-> TRUE, itinerary |-> toolResult.itinerary,
                       planMetadata |-> toolResult.planMetadata,
                       planWarnings |-> toolResult.warnings]
             ELSE NoItinerary(
                    <<"Planning agent did not return a valid plan">>)

\* the planning step of one run
PlanItineraryStep ==
    /\ sched.stage = "planning"
    /\ sched' =
          [sched EXCEPT
              !.stage = "planned",
              !.out = planItinerary(sched.outcome, sched.llmPlan, sched.rankedEvents,
                                    sched.date, sched.budgetMax, sched.partySize)]
    /\ UNCHANGED <<pc, itinerary, planWarnings, bookingResults, registry, promise,
                   approved, resp, bookable, nxt, att, disc>>

InitPlanning ==
    /\ pc = [r \in Runs |-> "absent"]
    /\ itinerary = [r \in Runs |-> Undefined]
    /\ planWarnings = [r \in Runs |-> Undefined]
    /\ bookingResults = [r \in Runs |-> Undefined]
    /\ registry = [r \in Runs |-> "none"]
    /\ promise = [r \in Runs |-> "none"]
    /\ approved = [r \in Runs |-> "none"]
    /\ resp = NoResp
    /\ bookable = [r \in Runs |-> <<>>]
    /\ nxt = [r \in Runs |-> 1]
    /\ att = [r \in Runs |-> [k \in 1..MaxOf(MaxItems, MaxGateItems) |-> IdleAtt]]
    /\ disc = DiscIdle
    /\ \E n \in 0..MaxPlanningItems : \E kinds \in [1..n -> FallbackKinds] :
       \E ranked \in RankedLists \cup {<<>>} : \E outcome \in AgentOutcomes :
          sched = [stage |-> "planning", outcome |-> outcome,
                   llmPlan |-> [items |-> Draft(kinds),
                                budgetStatus |-> "within_budget"],
                   rankedEvents |-> ranked, date |-> 1,
                   budgetMax |-> <<50>>, partySize |-> 2,
                   out |-> NoItinerary(<<>>)]

NextPlanning == PlanItineraryStep

SpecPlanning == InitPlanning /\ [][NextPlanning]_vars

\* ------------------------------------------------------------------------
\* deduplicateEventsTool: strings are sequences of characters
\* ------------------------------------------------------------------------
\* String.prototype.toLowerCase, character by character
toLowerCase(str) ==
    [i \in 1..Len(str) |->
        CASE str[i] = "J" -> "j"
          [] str[i] = "H" -> "h"
          [] str[i] = "B" -> "b"
          [] OTHER -> str[i]]

Letters == {"a", "b", "c", "d", "f", "h", "j", "k", "l", "o", "r", "x", "z"}

\* replace(/[^a-z0-9\s]/g, '')
stripPunctuation(str) ==
    LET keep(c) == c \in Letters \cup {" "} IN SelectSeq(str, keep)

\* replace(/\s+/g, ' ')
RECURSIVE collapseWhitespace(_)
collapseWhitespace(str) ==
    IF Len(str) <= 1 THEN str
    ELSE IF str[1] = " " /\ str[2] = " " THEN collapseWhitespace(Tail(str))
    ELSE <<str[1]>> \o collapseWhitespace(Tail(str))

\* String.prototype.trim
RECURSIVE trim(_)
trim(str) ==
    IF Len(str) = 0 THEN str
    ELSE IF str[1] = " " THEN trim(Tail(str))
    ELSE IF str[Len(str)] = " " THEN trim(SubSeq(str, 1, Len(str) - 1))
    ELSE str

\* Normalize a string for fuzzy comparison
normalizeText(str) ==
    trim(collapseWhitespace(stripPunctuation(toLowerCase(str))))

\* length of the longest common subsequence of the first i characters of a
\* and the first j characters of b (the value the two-row table ends with)
RECURSIVE lcs(_, _, _, _)
lcs(a, b, i, j) ==
    IF i = 0 \/ j = 0 THEN 0
    ELSE IF a[i] = b[j] THEN lcs(a, b, i - 1, j - 1) + 1
    ELSE MaxOf(lcs(a, b, i - 1, j), lcs(a, b, i, j - 1))

\* similarity ratio as the fraction num / den
similarity(a, b) ==
    IF a = b THEN [num |-> 1, den |-> 1]
    ELSE IF Len(a) = 0 \/ Len(b) = 0 THEN [num |-> 0, den |-> 1]
    ELSE [num |-> lcs(a, b, Len(a), Len(b)), den |-> MaxOf(Len(a), Len(b))]

\* 0.75 as a fraction
NAME_SIMILARITY_THRESHOLD == [num |-> 75, den |-> 100]

\* x >= y on fractions
atLeast(x, y) == x.num * y.den >= y.num * x.den

hasTimeOverlap(a, b) ==
    /\ getTime(a.timeSlot.start) < getTime(b.timeSlot.end)
    /\ getTime(b.timeSlot.start) < getTime(a.timeSlot.end)

scoreEventCompleteness(e) ==
    (IF e.hasPrice THEN 2 ELSE 0) + (IF e.hasRating THEN 2 ELSE 0)
    + (IF e.hasImage THEN 1 ELSE 0) + (IF e.reviewCount > 0 THEN 1 ELSE 0)
    + (IF e.descriptionLength > 50 THEN 1 ELSE 0)

\* url.split('?')[0]
RECURSIVE beforeQuery(_)
beforeQuery(url) ==
    IF Len(url) = 0 \/ url[1] = "?" THEN <<>>
    ELSE <<url[1]>> \o beforeQuery(Tail(url))

\* replace(/\/+$/, '')
RECURSIVE stripTrailingSlashes(_)
stripTrailingSlashes(url) ==
    IF Len(url) > 0 /\ url[Len(url)] = "/"
    THEN stripTrailingSlashes(SubSeq(url, 1, Len(url) - 1))
    ELSE url

\* Normalize a URL for comparison
normalizeUrl(url) == toLowerCase(stripTrailingSlashes(beforeQuery(url)))

\* URL-based exact match; an absent sourceUrl is the empty sequence
hasSameUrl(a, b) ==
    IF Len(a.sourceUrl) = 0 \/ Len(b.sourceUrl) = 0 THEN FALSE
    ELSE normalizeUrl(a.sourceUrl) = normalizeUrl(b.sourceUrl)

isDuplicate(best, candidate) ==
    \/ hasSameUrl(best, candidate)
    \/ /\ atLeast(similarity(normalizeText(best.name), normalizeText(candidate.name)),
                  NAME_SIMILARITY_THRESHOLD)
       /\ hasTimeOverlap(best, candidate)

moreCompleteOrTie(candidate, best) ==
    scoreEventCompleteness(candidate) >= scoreEventCompleteness(best)

\* "scoreEventCompleteness(candidate) > scoreEventCompleteness(best)"
moreComplete(candidate, best) ==
    scoreEventCompleteness(candidate) > scoreEventCompleteness(best)

\* the inner loop over j from index j on
RECURSIVE dedupeInner(_, _, _, _)
dedupeInner(events, j, best, merged) ==
    IF j > Len(events) THEN [best |-> best, merged |-> merged]
    ELSE IF j \in merged THEN dedupeInner(events, j + 1, best, merged)
    ELSE IF isDuplicate(best, events[j])
         THEN dedupeInner(events, j + 1,
                 IF moreComplete(events[j], best) THEN events[j] ELSE best,
                 merged \cup {j})
         ELSE dedupeInner(events, j + 1, best, merged)

\* the outer loop over i from index i on
RECURSIVE dedupeOuter(_, _, _, _)
dedupeOuter(events, i, merged, result) ==
    IF i > Len(events) THEN result
    ELSE IF i \in merged THEN dedupeOuter(events, i + 1, merged, result)
    ELSE LET r == dedupeInner(events, i + 1, events[i], merged)
         IN  dedupeOuter(events, i + 1, r.merged, Append(result, r.best))

\* the outer loop again, keeping for each pushed best the indices it stands
\* for: i and the indices added to merged during the iteration
RECURSIVE mergedGroups(_, _, _, _)
mergedGroups(events, i, merged, groups) ==
    IF i > Len(events) THEN groups
    ELSE IF i \in merged THEN mergedGroups(events, i + 1, merged, groups)
    ELSE LET r == dedupeInner(events, i + 1, events[i], merged)
         IN  mergedGroups(events, i + 1, r.merged,
                Append(groups, [members |-> {i} \cup (r.merged \ merged),
                                best |-> r.best]))

\* deduplicateEventsTool.execute
deduplicateEventsTool(events) ==
    LET result == IF Len(events) <= 1 THEN events
                  ELSE dedupeOuter(events, 1, {}, <<>>)
    IN  [events |-> result, originalCount |-> Len(events),
         deduplicatedCount |-> Len(result),
         removedCount |-> Len(events) - Len(result)]

\* events as the discovery sources return them
DedupeEvent(id, name, url, startH, startM, endH, endM, price, image) ==
    [id |-> id, name |-> name, sourceUrl |-> url,
     timeSlot |-> [start |-> ISO(1, startH, startM), end |-> ISO(1, endH, endM)],
     hasPrice |-> price, hasRating |-> FALSE, hasImage |-> image,
     reviewCount |-> 0, descriptionLength |-> 20]

\* "Jazz" at h/a; "jazz!" at h/b?x with a price; "rock" at H/B/;
\* "jazx" without URL in the morning; " jaz" at h/c with an image;
\* "folk  dj" at h/d/; "jazz " at h/e, as complete as "Jazz"
DedupeEvents ==
    { DedupeEvent("e1", <<"J", "a", "z", "z">>, <<"h", "/", "a">>,
                  11, 0, 13, 0, FALSE, FALSE),
      DedupeEvent("e2", <<"j", "a", "z", "z", "!">>, <<"h", "/", "b", "?", "x">>,
                  12, 0, 14, 0, TRUE, FALSE),
      DedupeEvent("e3", <<"r", "o", "c", "k">>, <<"H", "/", "B", "/">>,
                  11, 0, 13, 0, FALSE, FALSE),
      DedupeEvent("e4", <<"j", "a", "z", "x">>, <<>>,
                  2, 0, 3, 0, FALSE, FALSE),
      DedupeEvent("e5", <<" ", "j", "a", "z">>, <<"h", "/", "c">>,
                  12, 30, 13, 30, FALSE, TRUE),
      DedupeEvent("e6", <<"f", "o", "l", "k", " ", " ", "d", "j">>, <<"h", "/", "d", "/">>,
                  11, 0, 13, 0, TRUE, TRUE),
      DedupeEvent("e7", <<"j", "a", "z", "z", " ">>, <<"h", "/", "e">>,
                  11, 30, 12, 30, FALSE, FALSE) }

\* one dedupe pass over the current list
DeduplicateEvents ==
    /\ disc.stage = "dedupe"
    /\ disc.passes < MaxPasses
    /\ disc' = [disc EXCEPT
                  !.passes = @ + 1,
                  !.previous = disc.events,
                  !.events = deduplicateEventsTool(disc.events).events,
                  !.removedCount = deduplicateEventsTool(disc.events).removedCount,
                  !.groups = IF Len(disc.events) <= 1
                               THEN [k \in 1..Len(disc.events) |->
                                        [members |-> {k}, best |-> disc.events[k]]]
                               ELSE mergedGroups(disc.events, 1, {}, <<>>)]
    /\ UNCHANGED <<pc, dataVars, approvalVars, approved, execVars, sched>>

InitDedupe ==
    /\ pc = [r \in Runs |-> "absent"]
    /\ itinerary = [r \in Runs |-> Undefined]
    /\ planWarnings = [r \in Runs |-> Undefined]
    /\ bookingResults = [r \in Runs |-> Undefined]
    /\ registry = [r \in Runs |-> "none"]
    /\ promise = [r \in Runs |-> "none"]
    /\ approved = [r \in Runs |-> "none"]
    /\ resp = NoResp
    /\ bookable = [r \in Runs |-> <<>>]
    /\ nxt = [r \in Runs |-> 1]
    /\ att = [r \in Runs |-> [k \in 1..MaxOf(MaxItems, MaxGateItems) |-> IdleAtt]]
    /\ sched = SchedIdle
    /\ \E n \in 0..MaxDedupeEvents : \E x \in [1..n -> DedupeEvents] :
          disc = [stage |-> "dedupe", input |-> x, events |-> x, previous |-> x,
                  passes |-> 0, removedCount |-> 0, groups |-> <<>>]

NextDedupe == DeduplicateEvents

SpecDedupe == InitDedupe /\ [][NextDedupe]_vars

\* ------------------------------------------------------------------------
\* The ranking step (rankAndRecommend) and rankEventsTool
\* ------------------------------------------------------------------------
\* rankEventsTool, phase 1: an event passes unless it is sold out, its
\* category is excluded, or its minimum price exceeds the budget ceiling
passesHardFilters(event, budgetMax, excludedCategories) ==
    /\ event.availability # "sold_out"
    /\ event.category \notin excludedCategories
    /\ (budgetMax # <<>> /\ event.priceMin # <<>>) => event.priceMin[1] <= budgetMax[1]

\* rankEventsTool, phase 2: weighted score in hundredths from the five factor
\* values of the event (each 0..100): budget fit 30%, category match 25%,
\* rating 20%, availability 15%, weather 10%
scoreEvent(event) ==
    (30 * event.factors.budgetFit + 25 * event.factors.categoryMatch
     + 20 * event.factors.rating + 15 * event.factors.availability
     + 10 * event.factors.weather) \div 100

\* rankEventsTool.execute: filter, score, sort descending by score
rankEventsTool(events, budgetMax, excludedCategories) ==
    LET passed == SelectSeq(events,
                     LAMBDA e : passesHardFilters(e, budgetMax, excludedCategories))
        sorted == sortByKey([i \in 1..Len(passed) |->
                                <<0 - scoreEvent(passed[i]),
                                  [event |-> passed[i], score |-> scoreEvent(passed[i])]>>])
    IN  [rankedEvents |-> [i \in 1..Len(sorted) |-> sorted[i][2]],
         filterStats |-> [totalInput |-> Len(events), passedFilters |-> Len(passed),
                          finalCount |-> Len(sorted)]]

budgetMaxOfNothing(constraints) == <<>>

\* (constraints?.budget)?.max
budgetMaxOf(constraints) == constraints.budget.max

\* agentEnrichment?.excludedCategories; the tool treats undefined as no exclusion
excludedCategoriesOf(agentEnrichment) == agentEnrichment.excludedCategories

top3Last(rankedEvents) ==
    IF Len(rankedEvents) = 0 THEN <<>> ELSE <<rankedEvents[Len(rankedEvents)]>>

\* rankedEvents.slice(0, 1)
top3(rankedEvents) == SubSeq(rankedEvents, 1, MinOf(1, Len(rankedEvents)))

\* rankAndRecommend: rankResult is what the tool returned (Undefined when it
\* was not called or returned an error), rankedEvents the step's output
rankAndRecommend(events, constraints, agentEnrichment, toolFails) ==
    IF Len(events) = 0 \/ toolFails
    THEN [rankResult |-> Undefined, rankedEvents |-> Undefined]
    ELSE LET rankResult == rankEventsTool(events, budgetMaxOf(constraints),
                                          excludedCategoriesOf(agentEnrichment))
         IN  [rankResult |-> Defined(rankResult.rankedEvents),
              rankedEvents |-> Defined(top3(rankResult.rankedEvents))]

RankEvent(id, priceMin, category, availability, b, c, r, a, w) ==
    [id |-> id, priceMin |-> priceMin, category |-> category,
     availability |-> availability,
     factors |-> [budgetFit |-> b, categoryMatch |-> c, rating |-> r,
                  availability |-> a, weather |-> w]]

\* events priced 20, 60, 30 (nightlife), 10 (sold out), unpriced, and 50
RankEvents ==
    { RankEvent("r1", <<20>>, "music", "available", 80, 100, 60, 100, 50),
      RankEvent("r2", <<60>>, "music", "available", 20, 100, 100, 100, 50),
      RankEvent("r3", <<30>>, "nightlife", "available", 70, 50, 80, 100, 50),
      RankEvent("r4", <<10>>, "music", "sold_out", 100, 100, 100, 0, 50),
      RankEvent("r5", <<>>, "arts", "unknown", 50, 50, 40, 50, 50),
      RankEvent("r6", <<50>>, "arts", "limited", 40, 50, 90, 70, 100) }

\* the ranking step of one run
RankAndRecommend ==
    /\ disc.stage = "rank"
    /\ disc' = [disc EXCEPT
                  !.stage = "ranked",
                  !.out = rankAndRecommend(disc.events, disc.constraints,
                                           disc.agentEnrichment, disc.toolFails)]
    /\ UNCHANGED <<pc, dataVars, approvalVars, approved, execVars, sched>>

InitRank ==
    /\ pc = [r \in Runs |-> "absent"]
    /\ itinerary = [r \in Runs |-> Undefined]
    /\ planWarnings = [r \in Runs |-> Undefined]
    /\ bookingResults = [r \in Runs |-> Undefined]
    /\ registry = [r \in Runs |-> "none"]
    /\ promise = [r \in Runs |-> "none"]
    /\ approved = [r \in Runs |-> "none"]
    /\ resp = NoResp
    /\ bookable = [r \in Runs |-> <<>>]
    /\ nxt = [r \in Runs |-> 1]
    /\ att = [r \in Runs |-> [k \in 1..MaxOf(MaxItems, MaxGateItems) |-> IdleAtt]]
    /\ sched = SchedIdle
    /\ \E n \in 0..MaxRankEvents : \E x \in [1..n -> RankEvents] :
       \E max \in {<<>>, <<50>>} : \E excluded \in {{}, {"nightlife"}} :
       \E toolFails \in BOOLEAN :
          disc = [stage |-> "rank", events |-> x,
                  constraints |-> [budget |-> [max |-> max]],
                  agentEnrichment |-> [excludedCategories |-> excluded],
                  toolFails |-> toolFails,
                  out |-> [rankResult |-> Undefined, rankedEvents |-> Undefined]]

NextRank == RankAndRecommend

SpecRank == InitRank /\ [][NextRank]_vars

\* ------------------------------------------------------------------------
\* fetchWithRetry (the discovery HTTP layer)
\* ------------------------------------------------------------------------
\* what one fetch(url, init) does: it rejects (network error) or resolves
\* with a response; bodyReadable says whether response.text() resolves
NetworkError == [kind |-> "networkError", status |-> 0, retryAfter |-> <<>>,
                 bodyReadable |-> FALSE]
HttpResponse(status, retryAfter, bodyReadable) ==
    [kind |-> "response", status |-> status, retryAfter |-> retryAfter,
     bodyReadable |-> bodyReadable]

FetchOutcomes ==
    { NetworkError,
      HttpResponse(200, <<>>, TRUE),
      HttpResponse(404, <<>>, TRUE),
      HttpResponse(404, <<>>, FALSE),
      HttpResponse(429, <<>>, TRUE),
      HttpResponse(429, <<2>>, TRUE),
      HttpResponse(503, <<>>, TRUE) }

\* response.ok
ok(response) == response.status >= 200 /\ response.status <= 299

\* BASE_DELAY_MS * Math.pow(2, attempt)
backoff(attempt) == BASE_DELAY_MS * 2 ^ attempt

\* one iteration of the for loop with the given fetch outcome: what the
\* iteration ends with ("return", "throw" or "next"), and the sleeps it made
iteration(o, attempt, retries) ==
    IF o.kind = "networkError"
    THEN [end |-> "next", sleeps |-> IF attempt < retries THEN <<backoff(attempt)>> ELSE <<>>]
    ELSE IF ok(o) THEN [end |-> "return", sleeps |-> <<>>]
    ELSE IF o.status = 429
         THEN [end |-> "next",
               sleeps |-> <<IF o.retryAfter # <<>> THEN o.retryAfter[1] * 1000
                            ELSE backoff(attempt)>>]
    ELSE IF o.status >= 500 THEN [end |-> "next", sleeps |-> <<backoff(attempt)>>]
    ELSE IF o.bodyReadable THEN [end |-> "throw", sleeps |-> <<>>]
    ELSE [end |-> "next", sleeps |-> IF attempt < retries THEN <<backoff(attempt)>> ELSE <<>>]

\* no call of fetchWithRetry yet made a request
FetchStart ==
    [stage |-> "fetch", retries |-> MAX_RETRIES, attempt |-> 0, log |-> <<>>,
     sleeps |-> <<>>, result |-> "pending"]

\* one iteration of the loop: a request, its classification, its sleep
FetchAttempt ==
    /\ disc.stage = "fetch"
    /\ disc.result = "pending"
    /\ disc.attempt <= disc.retries
    /\ \E o \in FetchOutcomes :
          LET it == iteration(o, disc.attempt, disc.retries)
          IN  disc' = [disc EXCEPT
                         !.log = Append(@, o),
                         !.sleeps = Append(@, it.sleeps),
                         !.attempt = @ + 1,
                         !.result = CASE it.end = "return" -> "returned"
                                      [] it.end = "throw" -> "thrown"
                                      [] OTHER -> "pending"]
    /\ UNCHANGED <<pc, dataVars, approvalVars, approved, execVars, sched>>

\* the loop is over: throw lastError
FetchExhausted ==
    /\ disc.stage = "fetch"
    /\ disc.result = "pending"
    /\ disc.attempt > disc.retries
    /\ disc' = [disc EXCEPT !.result = "thrown"]
    /\ UNCHANGED <<pc, dataVars, approvalVars, approved, execVars, sched>>

InitFetch ==
    /\ pc = [r \in Runs |-> "absent"]
    /\ itinerary = [r \in Runs |-> Undefined]
    /\ planWarnings = [r \in Runs |-> Undefined]
    /\ bookingResults = [r \in Runs |-> Undefined]
    /\ registry = [r \in Runs |-> "none"]
    /\ promise = [r \in Runs |-> "none"]
    /\ approved = [r \in Runs |-> "none"]
    /\ resp = NoResp
    /\ bookable = [r \in Runs |-> <<>>]
    /\ nxt = [r \in Runs |-> 1]
    /\ att = [r \in Runs |-> [k \in 1..MaxOf(MaxItems, MaxGateItems) |-> IdleAtt]]
    /\ sched = SchedIdle
    /\ disc = FetchStart

NextFetch == FetchAttempt \/ FetchExhausted

SpecFetch == InitFetch /\ [][NextFetch]_vars

\* ------------------------------------------------------------------------
\* Discovery: the two search tools, the parallel queries and the merge
\* ------------------------------------------------------------------------
Sources == {"eventbrite", "eventfinda"}

\* an event a source returns: the deduplicator's fields with the fields the
\* post-fetch filters read
SearchEvent(id, name, url, priceMin, category, availability) ==
    DedupeEvent(id, name, url, 11, 0, 13, 0, priceMin # <<>>, FALSE)
       @@ [priceMin |-> priceMin, category |-> category, availability |-> availability]

\* the fixed demo dataset of a source (demo-data.js)
DemoEvents(source) ==
    IF source = "eventbrite"
    THEN << SearchEvent("demo-eb-1", <<"j", "a", "z", "z">>, <<"d", "/", "a">>,
                        <<20>>, "music", "available"),
            SearchEvent("demo-eb-2", <<"r", "o", "c", "k">>, <<"d", "/", "b">>,
                        <<80>>, "arts", "sold_out") >>
    ELSE << SearchEvent("demo-ef-1", <<"f", "o", "l", "k">>, <<"d", "/", "c">>,
                        <<60>>, "music", "available"),
            SearchEvent("demo-ef-2", <<"d", "j">>, <<"d", "/", "d">>,
                        <<>>, "arts", "sold_out") >>

\* what the live call of a source does: an error while fetching, an error
\* while parsing or mapping, or a list of events; both sources can return
\* the event at x/a
LiveOutcomes(source) ==
    LET shared == SearchEvent("live-x", <<"l", "o", "f", "z">>, <<"x", "/", "a">>,
                              <<30>>, "music", "available")
        own == SearchEvent(IF source = "eventbrite" THEN "live-eb" ELSE "live-ef",
                           <<"k", "o", "d", "a">>,
                           IF source = "eventbrite" THEN <<"x", "/", "b">> ELSE <<"x", "/", "c">>,
                           <<70>>, "arts", "sold_out")
    IN  { [outcome |-> "fetchError", events |-> <<>>],
          [outcome |-> "mapError", events |-> <<>>],
          [outcome |-> "ok", events |-> <<>>],
          [outcome |-> "ok", events |-> <<shared>>],
          [outcome |-> "ok", events |-> <<own, shared>>] }

\* Common post-fetch filtering; options.budgetMax is <<>> when undefined,
\* options.categories the empty set when undefined or empty
applyEventFilters(events, options) ==
    LET keep(e) ==
          /\ options.removeSoldOut => e.availability # "sold_out"
          /\ (options.budgetMax # <<>> /\ e.priceMin # <<>>)
                => e.priceMin[1] <= options.budgetMax[1]
          /\ options.categories # {} => e.category \in options.categories
    IN  SelectSeq(events, keep)

buildSearchResult(events, source, mode, options) ==
    LET filtered == applyEventFilters(events, options)
    IN  [raised |-> FALSE,
         events |-> SubSeq(filtered, 1, MinOf(options.maxResults, Len(filtered))),
         source |-> source, mode |-> mode, error |-> options.error]

searchToolRethrows(source, hasCredentials, live, input) ==
    IF hasCredentials /\ live.outcome # "ok"
    THEN [raised |-> TRUE, events |-> <<>>, source |-> source, mode |-> "none",
          error |-> <<live.outcome>>]
    ELSE buildSearchResult(IF hasCredentials THEN live.events ELSE DemoEvents(source),
            source, IF hasCredentials THEN "live" ELSE "demo",
            [budgetMax |-> input.budgetMax, categories |-> {}, removeSoldOut |-> FALSE,
             maxResults |-> input.maxResults, error |-> <<>>])

\* searchEventbriteTool.execute and searchEventfindaTool.execute
searchTool(source, hasCredentials, live, input) ==
    LET options == [budgetMax |-> input.budgetMax,
                    categories |-> IF source = "eventfinda" THEN input.categories ELSE {},
                    removeSoldOut |-> source = "eventbrite",
                    maxResults |-> input.maxResults, error |-> <<>>]
    IN  IF ~hasCredentials
        THEN buildSearchResult(DemoEvents(source), source, "demo", options)
        ELSE IF live.outcome = "ok"
        THEN buildSearchResult(live.events, source, "live", options)
        ELSE buildSearchResult(DemoEvents(source), source, "demo",
                [budgetMax |-> <<>>, categories |-> {}, removeSoldOut |-> FALSE,
                 maxResults |-> input.maxResults, error |-> <<live.outcome>>])

NoSearchResult ==
    [raised |-> FALSE, events |-> <<>>, source |-> "none", mode |-> "none", error |-> <<>>]

\* one search tool call ends with a result
SearchSettles(source) ==
    /\ disc.stage = "discovery"
    /\ disc.settled[source] = "pending"
    /\ \E live \in LiveOutcomes(source) :
          LET result == searchTool(source, disc.credentials[source], live, disc.input)
          IN  disc' = [disc EXCEPT
                         !.settled[source] = IF result.raised THEN "rejected" ELSE "fulfilled",
                         !.live[source] = live.outcome,
                         !.results[source] = IF result.raised THEN NoSearchResult ELSE result]
    /\ UNCHANGED <<pc, dataVars, approvalVars, approved, execVars, sched>>

\* the promise of a search rejects outside the tool's own code (the tool
\* runtime around execute)
SearchRejects(source) ==
    /\ disc.stage = "discovery"
    /\ disc.settled[source] = "pending"
    /\ disc' = [disc EXCEPT !.settled[source] = "rejected", !.live[source] = "rejected"]
    /\ UNCHANGED <<pc, dataVars, approvalVars, approved, execVars, sched>>

allSettledAny(settled) == \E source \in Sources : settled[source] # "pending"

\* Promise.allSettled / .parallel: every query has settled
allSettled(settled) == \A source \in Sources : settled[source] # "pending"

\* GET /api/events: merge and deduplicate by sourceUrl
RECURSIVE mergeBySourceUrl(_, _, _)
mergeBySourceUrl(events, seenUrls, allEvents) ==
    IF events = <<>> THEN allEvents
    ELSE IF Head(events).sourceUrl \in seenUrls
         THEN mergeBySourceUrl(Tail(events), seenUrls, allEvents)
         ELSE mergeBySourceUrl(Tail(events), seenUrls \cup {Head(events).sourceUrl},
                               Append(allEvents, Head(events)))

\* events of a settled query as the merge reads them: none when the query
\* was rejected or left no result
eventsOf(source) ==
    IF disc.settled[source] = "fulfilled" THEN disc.results[source].events ELSE <<>>

hallyuConEvent ==
    SearchEvent("inject_hallyucon_mar26", <<"h", "c">>, <<"h", "/", "h", "c">>,
                <<0>>, "cultural", "available")

\* the events endpoint, from Promise.allSettled on
EventsRoute ==
    /\ disc.stage = "discovery"
    /\ disc.handler = "route"
    /\ disc.merged = Undefined
    /\ allSettled(disc.settled)
    /\ disc' = [disc EXCEPT
                  !.rawCount = Len(eventsOf("eventbrite")) + Len(eventsOf("eventfinda")),
                  !.merged = Defined(mergeBySourceUrl(
                                eventsOf("eventbrite") \o eventsOf("eventfinda"), {}, <<>>))]
    /\ UNCHANGED <<pc, dataVars, approvalVars, approved, execVars, sched>>

\* mergeAndDeduplicateEvents after .parallel
MergeAndDeduplicateEvents ==
    /\ disc.stage = "discovery"
    /\ disc.handler = "pipeline"
    /\ disc.merged = Undefined
    /\ allSettled(disc.settled)
    /\ LET rawEvents == eventsOf("eventbrite") \o eventsOf("eventfinda")
           allEvents == deduplicateEventsTool(rawEvents).events
           present == \E i \in 1..Len(allEvents) :
                         \/ allEvents[i].id = hallyuConEvent.id
                         \/ allEvents[i].sourceUrl = hallyuConEvent.sourceUrl
       IN  disc' = [disc EXCEPT
                      !.rawCount = Len(rawEvents),
                      !.merged = Defined(IF present THEN allEvents
                                         ELSE Append(allEvents, hallyuConEvent))]
    /\ UNCHANGED <<pc, dataVars, approvalVars, approved, execVars, sched>>

InitDiscovery ==
    /\ pc = [r \in Runs |-> "absent"]
    /\ itinerary = [r \in Runs |-> Undefined]
    /\ planWarnings = [r \in Runs |-> Undefined]
    /\ bookingResults = [r \in Runs |-> Undefined]
    /\ registry = [r \in Runs |-> "none"]
    /\ promise = [r \in Runs |-> "none"]
    /\ approved = [r \in Runs |-> "none"]
    /\ resp = NoResp
    /\ bookable = [r \in Runs |-> <<>>]
    /\ nxt = [r \in Runs |-> 1]
    /\ att = [r \in Runs |-> [k \in 1..MaxOf(MaxItems, MaxGateItems) |-> IdleAtt]]
    /\ sched = SchedIdle
    /\ \E handler \in {"route", "pipeline"} : \E credentials \in [Sources -> BOOLEAN] :
       \E budgetMax \in {<<>>, <<50>>} : \E categories \in {{}, {"music"}} :
          disc = [stage |-> "discovery", handler |-> handler,
                  credentials |-> credentials,
                  input |-> [budgetMax |-> budgetMax, categories |-> categories,
                             maxResults |-> 20],
                  settled |-> [source \in Sources |-> "pending"],
                  live |-> [source \in Sources |-> "none"],
                  results |-> [source \in Sources |-> NoSearchResult],
                  rawCount |-> 0, merged |-> Undefined]

NextDiscovery ==
    \/ \E source \in Sources : SearchSettles(source) \/ SearchRejects(source)
    \/ EventsRoute
    \/ MergeAndDeduplicateEvents

SpecDiscovery == InitDiscovery /\ [][NextDiscovery]_vars

\* ------------------------------------------------------------------------
\* runCheckoutLoop on its own, with the page texts and the fill and click
\* outcomes of every iteration kept
\* ------------------------------------------------------------------------
withinStepsOneMore(step) == step <= MAX_CHECKOUT_STEPS

\* the loop condition step < MAX_CHECKOUT_STEPS
withinSteps(step) == step < MAX_CHECKOUT_STEPS

noActionTakenNever(anyFilled, clickedProceed) == FALSE

\* !anyFilled && !clickedProceed
noActionTaken(anyFilled, clickedProceed) == ~anyFilled /\ ~clickedProceed

\* the loop before its first iteration
CheckoutStart ==
    [stage |-> "checkout", step |-> 0, previousPageText |-> "", stuckCount |-> 0,
     texts |-> <<>>, acts |-> <<>>, exit |-> "running"]

\* one iteration of the for loop: confirmation check, stuck detection,
\* fillFormFields, clickProceedButton
checkoutIteration(loop, quickCheck, currentPageText, anyFilled, clickedProceed) ==
    LET same == loop.previousPageText # "" /\ currentPageText = loop.previousPageText
        stuckCount == IF same THEN loop.stuckCount + 1 ELSE 0
        seen == [loop EXCEPT !.texts = Append(@, currentPageText),
                             !.stuckCount = stuckCount]
        acted == [seen EXCEPT !.previousPageText = currentPageText,
                              !.acts = Append(@, [filled |-> anyFilled,
                                                  clicked |-> clickedProceed]),
                              !.step = @ + 1]
    IN  IF quickCheck = "CONFIRMED" THEN [loop EXCEPT !.exit = "confirmed"]
        ELSE IF same /\ stuckCount >= 2 THEN [seen EXCEPT !.exit = "stuck"]
        ELSE IF noActionTaken(anyFilled, clickedProceed)
             THEN [acted EXCEPT !.exit = "noAction"]
        ELSE IF ~withinSteps(acted.step) THEN [acted EXCEPT !.exit = "maxSteps"]
        ELSE acted

RunCheckoutIteration ==
    /\ disc.stage = "checkout"
    /\ disc.exit = "running"
    /\ withinSteps(disc.step)
    /\ \E quickCheck \in {"CONFIRMED", "CONTINUE"}, currentPageText \in PageTexts,
          anyFilled \in BOOLEAN, clickedProceed \in BOOLEAN :
          disc' = checkoutIteration(disc, quickCheck, currentPageText,
                                    anyFilled, clickedProceed)
    /\ UNCHANGED <<pc, dataVars, approvalVars, approved, execVars, sched>>

InitCheckout ==
    /\ pc = [r \in Runs |-> "absent"]
    /\ itinerary = [r \in Runs |-> Undefined]
    /\ planWarnings = [r \in Runs |-> Undefined]
    /\ bookingResults = [r \in Runs |-> Undefined]
    /\ registry = [r \in Runs |-> "none"]
    /\ promise = [r \in Runs |-> "none"]
    /\ approved = [r \in Runs |-> "none"]
    /\ resp = NoResp
    /\ bookable = [r \in Runs |-> <<>>]
    /\ nxt = [r \in Runs |-> 1]
    /\ att = [r \in Runs |-> [k \in 1..MaxOf(MaxItems, MaxGateItems) |-> IdleAtt]]
    /\ sched = SchedIdle
    /\ disc = CheckoutStart

SpecCheckout == InitCheckout /\ [][RunCheckoutIteration]_vars

\* ---------------------------------------------------------------------------
\* Run contexts of POST /api/workflow (src/api/persist-itinerary.ts): the
\* handler registers a context per run and schedules its deletion when the
\* promise of run.start settles.
\* ---------------------------------------------------------------------------
Workflows == {"w1", "w2"}

NoContext == [phase |-> "idle", entry |-> FALSE, timer |-> FALSE, status |-> "none"]

\* setTimeout(() => contextRegistry.delete(workflowId), 5 * 60 * 1000)
scheduleContextCleanup(c) == [c EXCEPT !.timer = TRUE]

\* PlanFormDataSchema.safeParse(req.body): 400 on failure, otherwise the
\* handler enters the try block and awaits workflow.createRun().
PostWorkflow(w) ==
    /\ disc.stage = "context"
    /\ disc.ctx[w].phase = "idle"
    /\ \E success \in BOOLEAN :
          disc' = [disc EXCEPT !.ctx[w].phase = IF success THEN "creating" ELSE "invalid"]
    /\ UNCHANGED <<pc, dataVars, approvalVars, approved, execVars, sched>>

\* await workflow.createRun() settles: on success contextRegistry.set and the
\* handler awaits the profile query; on failure the outer catch answers 500.
CreateRun(w) ==
    /\ disc.stage = "context"
    /\ disc.ctx[w].phase = "creating"
    /\ \E created \in BOOLEAN :
          disc' = IF created
                  THEN [disc EXCEPT !.ctx[w].phase = "profile", !.ctx[w].entry = TRUE]
                  ELSE [disc EXCEPT !.ctx[w].phase = "startFailed"]
    /\ UNCHANGED <<pc, dataVars, approvalVars, approved, execVars, sched>>

\* await supabaseAdmin...single() settles: on success res.json and run.start
\* with its then/catch attached; an exception here reaches the outer catch,
\* which answers 500 and does nothing else.
FetchProfile(w) ==
    /\ disc.stage = "context"
    /\ disc.ctx[w].phase = "profile"
    /\ \E thrown \in BOOLEAN :
          disc' = [disc EXCEPT !.ctx[w].phase = IF thrown THEN "startFailed" ELSE "running"]
    /\ UNCHANGED <<pc, dataVars, approvalVars, approved, execVars, sched>>

\* The promise of run.start settles: then (status success or not) or catch.
RunSettles(w) ==
    /\ disc.stage = "context"
    /\ disc.ctx[w].phase = "running"
    /\ \E status \in {"success", "failed", "error"} :
          disc' = [disc EXCEPT !.ctx[w] =
                      scheduleContextCleanup([@ EXCEPT !.phase = "ended", !.status = status])]
    /\ UNCHANGED <<pc, dataVars, approvalVars, approved, execVars, sched>>

\* The cleanup timer fires: contextRegistry.delete(workflowId).
CleanupFires(w) ==
    /\ disc.stage = "context"
    /\ disc.ctx[w].timer
    /\ disc' = [disc EXCEPT !.ctx[w].timer = FALSE, !.ctx[w].entry = FALSE]
    /\ UNCHANGED <<pc, dataVars, approvalVars, approved, execVars, sched>>

InitContext ==
    /\ pc = [r \in Runs |-> "absent"]
    /\ itinerary = [r \in Runs |-> Undefined]
    /\ planWarnings = [r \in Runs |-> Undefined]
    /\ bookingResults = [r \in Runs |-> Undefined]
    /\ registry = [r \in Runs |-> "none"]
    /\ promise = [r \in Runs |-> "none"]
    /\ approved = [r \in Runs |-> "none"]
    /\ resp = NoResp
    /\ bookable = [r \in Runs |-> <<>>]
    /\ nxt = [r \in Runs |-> 1]
    /\ att = [r \in Runs |-> [k \in 1..MaxOf(MaxItems, MaxGateItems) |-> IdleAtt]]
    /\ sched = SchedIdle
    /\ disc = [stage |-> "context", ctx |-> [w \in Workflows |-> NoContext]]

NextContext ==
    \E w \in Workflows :
        \/ PostWorkflow(w)
        \/ CreateRun(w)
        \/ FetchProfile(w)
        \/ RunSettles(w)
        \/ CleanupFires(w)

\* Every pending await settles and every armed timer fires.
FairContext ==
    \A w \in Workflows :
        /\ WF_vars(CreateRun(w))
        /\ WF_vars(FetchProfile(w))
        /\ WF_vars(RunSettles(w))
        /\ WF_vars(CleanupFires(w))

SpecContext == InitContext /\ [][NextContext]_vars /\ FairContext

\* ---------------------------------------------------------------------------
\* From the scheduler to the execution step: the itinerary returned by
\* planItineraryTool is the one executeBookings filters.
\* ---------------------------------------------------------------------------
MaxHandoffItems == 2

\* draft items with and without the optional sourceUrl: a main item that
\* matches ev-1, a main item that matches nothing (sourceUrl absent, empty or
\* given), a complementary item (sourceUrl absent or given)
HandoffKinds ==
    LET main == [name |-> Name(<<"jazz", "night">>, "plain"), isMainEvent |-> TRUE,
                 startTime |-> HHMM(20, 0), endTime |-> HHMM(22, 0),
                 durationMinutes |-> 120, estimatedCostPerPerson |-> 40,
                 travelMinutes |-> 0]
        secret == [name |-> Name(<<"secret", "gig">>, "plain"), isMainEvent |-> TRUE,
                   startTime |-> HHMM(17, 0), endTime |-> HHMM(18, 0),
                   durationMinutes |-> 60, estimatedCostPerPerson |-> 30,
                   travelMinutes |-> 15]
        dinner == [name |-> Name(<<"dinner">>, "plain"), isMainEvent |-> FALSE,
                   startTime |-> HHMM(18, 0), endTime |-> HHMM(19, 0),
                   durationMinutes |-> 60, estimatedCostPerPerson |-> 25,
                   travelMinutes |-> 10]
    IN  { main, secret, dinner,
          secret @@ [sourceUrl |-> ""],
          secret @@ [sourceUrl |-> "https://secretgig.example"],
          dinner @@ [sourceUrl |-> "https://dinner.example"] }

\* the draft item at position pos, with its sourceUrl when it has one
MkHandoffItem(pos, kind) ==
    IF "sourceUrl" \in DOMAIN kind
      THEN MkDraftItem(pos, kind) @@ [sourceUrl |-> kind.sourceUrl]
      ELSE MkDraftItem(pos, kind)

\* "item.event.sourceUrl && item.event.sourceUrl.trim() !== ''"
hasSourceUrl(event) == event.sourceUrl \notin {"", " "}

\* the filter of executeBookings on the items of the scheduler's itinerary
bookableItemsOf(items) ==
    SelectSeq(items, LAMBDA item :
        Bookable([source |-> item.event.source, hasUrl |-> hasSourceUrl(item.event)]))

\* executeBookings up to the booking loop: every bookable item is passed to
\* executeBookingTool, in order
FilterBookableItems ==
    /\ sched.stage = "done"
    /\ disc.stage = "handoff"
    /\ disc' = [stage |-> "execution",
                bookableItems |-> bookableItemsOf(sched.result.itinerary.items)]
    /\ UNCHANGED <<pc, dataVars, approvalVars, approved, execVars, sched>>

InitHandoff ==
    /\ pc = [r \in Runs |-> "absent"]
    /\ itinerary = [r \in Runs |-> Undefined]
    /\ planWarnings = [r \in Runs |-> Undefined]
    /\ bookingResults = [r \in Runs |-> Undefined]
    /\ registry = [r \in Runs |-> "none"]
    /\ promise = [r \in Runs |-> "none"]
    /\ approved = [r \in Runs |-> "none"]
    /\ resp = NoResp
    /\ bookable = [r \in Runs |-> <<>>]
    /\ nxt = [r \in Runs |-> 1]
    /\ att = [r \in Runs |-> [k \in 1..MaxOf(MaxItems, MaxGateItems) |-> IdleAtt]]
    /\ disc = [stage |-> "handoff"]
    /\ \E n \in 1..MaxHandoffItems : \E kinds \in [1..n -> HandoffKinds] :
          sched = [stage |-> "input",
                   llmPlan |-> [items |-> [i \in 1..n |-> MkHandoffItem(i, kinds[i])],
                                budgetStatus |-> "within_budget"],
                   rankedEvents |-> RankedEvents, date |-> 1,
                   budgetMax |-> <<50>>, partySize |-> 2,
                   plan |-> <<>>, result |-> NoResult]

NextHandoff == PlanItineraryTool \/ FilterBookableItems

SpecHandoff == InitHandoff /\ [][NextHandoff]_vars

\* ---------------------------------------------------------------------------
\* Specification of one tool call when a ranked event is not on the itinerary
\* date: the discovery step always adds "HallyuCon Mar '26" (2026-03-07,
\* 12:00-20:00 SGT), whatever date was asked for.
\* ---------------------------------------------------------------------------
MaxOverrideItems == 2

\* the itinerary date is day 1; day 0 is an earlier date
OverrideRankedEvents ==
    RankedEvents \o
    << [id |-> "inject_hallyucon_mar26",
        name |-> Name(<<"hallyucon", "mar", "26">>, "punct"),
        timeSlot |-> [start |-> ISO(0, 4, 0), end |-> ISO(0, 12, 0)],
        source |-> "eventbrite", priceMax |-> 0,
        sourceUrl |-> "https://www.eventbrite.sg/e/hallyucon-mar-26"] >>

\* proposed times: the slot of HallyuCon, the slot of ev-1, and another one
OverrideKinds ==
    { [name |-> n, isMainEvent |-> b, startTime |-> t.startTime,
       endTime |-> t.endTime, durationMinutes |-> 120,
       estimatedCostPerPerson |-> 20, travelMinutes |-> 10]
      : n \in { Name(<<"hallyucon", "mar", "26">>, "punct"),
                Name(<<"jazz", "night">>, "caps"),
                Name(<<"dinner">>, "plain") },
        b \in BOOLEAN,
        t \in { [startTime |-> HHMM(12, 0), endTime |-> HHMM(20, 0)],
                [startTime |-> HHMM(20, 0), endTime |-> HHMM(22, 0)],
                [startTime |-> HHMM(19, 0), endTime |-> HHMM(21, 0)] } }

InitOverride ==
    /\ pc = [r \in Runs |-> "absent"]
    /\ itinerary = [r \in Runs |-> Undefined]
    /\ planWarnings = [r \in Runs |-> Undefined]
    /\ bookingResults = [r \in Runs |-> Undefined]
    /\ registry = [r \in Runs |-> "none"]
    /\ promise = [r \in Runs |-> "none"]
    /\ approved = [r \in Runs |-> "none"]
    /\ resp = NoResp
    /\ bookable = [r \in Runs |-> <<>>]
    /\ nxt = [r \in Runs |-> 1]
    /\ att = [r \in Runs |-> [k \in 1..MaxOf(MaxItems, MaxGateItems) |-> IdleAtt]]
    /\ disc = DiscIdle
    /\ \E n \in 1..MaxOverrideItems : \E kinds \in [1..n -> OverrideKinds] :
          sched = [stage |-> "input",
                   llmPlan |-> [items |-> Draft(kinds),
                                budgetStatus |-> "within_budget"],
                   rankedEvents |-> OverrideRankedEvents, date |-> 1,
                   budgetMax |-> <<50>>, partySize |-> 2,
                   plan |-> <<>>, result |-> NoResult]

SpecOverride == InitOverride /\ [][NextSched]_vars

\* ---------------------------------------------------------------------------
\* Specification of one tool call on drafts of complementary items with
\* distinct names, whose proposed intervals may contain one another
\* ---------------------------------------------------------------------------
MaxOverlapItems == 3

\* 16:00-22:00, 17:00-18:00, 18:00-19:00, 19:00-20:00, 20:00-21:00
OverlapTimes ==
    { [startTime |-> HHMM(16, 0), endTime |-> HHMM(22, 0)],
      [startTime |-> HHMM(17, 0), endTime |-> HHMM(18, 0)],
      [startTime |-> HHMM(18, 0), endTime |-> HHMM(19, 0)],
      [startTime |-> HHMM(19, 0), endTime |-> HHMM(20, 0)],
      [startTime |-> HHMM(20, 0), endTime |-> HHMM(21, 0)] }

\* the item at position i is named after its position
OverlapNames ==
    << Name(<<"dinner">>, "plain"), Name(<<"coffee">>, "plain"),
       Name(<<"walk">>, "plain"), Name(<<"dessert">>, "plain") >>

InitOverlap ==
    /\ pc = [r \in Runs |-> "absent"]
    /\ itinerary = [r \in Runs |-> Undefined]
    /\ planWarnings = [r \in Runs |-> Undefined]
    /\ bookingResults = [r \in Runs |-> Undefined]
    /\ registry = [r \in Runs |-> "none"]
    /\ promise = [r \in Runs |-> "none"]
    /\ approved = [r \in Runs |-> "none"]
    /\ resp = NoResp
    /\ bookable = [r \in Runs |-> <<>>]
    /\ nxt = [r \in Runs |-> 1]
    /\ att = [r \in Runs |-> [k \in 1..MaxOf(MaxItems, MaxGateItems) |-> IdleAtt]]
    /\ disc = DiscIdle
    /\ \E n \in 1..MaxOverlapItems : \E times \in [1..n -> OverlapTimes] :
          sched = [stage |-> "input",
                   llmPlan |->
                       [items |->
                           Draft([i \in 1..n |->
                                    [name |-> OverlapNames[i], isMainEvent |-> FALSE,
                                     startTime |-> times[i].startTime,
                                     endTime |-> times[i].endTime,
                                     durationMinutes |-> 60,
                                     estimatedCostPerPerson |-> 10,
                                     travelMinutes |-> 0]]),
                        budgetStatus |-> "within_budget"],
                   rankedEvents |-> RankedEvents, date |-> 1,
                   budgetMax |-> <<50>>, partySize |-> 2,
                   plan |-> <<>>, result |-> NoResult]

SpecOverlap == InitOverlap /\ [][NextSched]_vars

\* ---------------------------------------------------------------------------
\* Context manager (context/context-manager): state changes update the
\* in-memory state and hand a message to the persister, which stores it in
\* the session created asynchronously at workflow initialization.
\* ---------------------------------------------------------------------------
MaxChanges == 3

\* meta.type of the message of each state-changing method
ChangeTypes ==
    { "phase_transition", "agent_state_updated", "events_discovered",
      "itinerary_planned", "workflow_error", "custom_data_set" }

\* AcontextPersister.persist: nothing is sent without a client or before the
\* session id is set; otherwise storeMessage is called
persisterPersist(client, sessionId) ==
    IF ~client \/ sessionId = "null" THEN "none" ELSE "inflight"

\* initializeWorkflow has run: the state is in memory and initSession is in
\* flight when a client is configured
PersistStart(client) ==
    [stage |-> "persist", client |-> client, sessionId |-> "null",
     creating |-> client, memory |-> <<>>, messages |-> <<>>]

\* await client.sessions.create settles: the session id is set, or the
\* failure is caught and logged
InitSessionSettles ==
    /\ disc.stage = "persist"
    /\ disc.creating
    /\ \E created \in BOOLEAN :
          disc' = [disc EXCEPT !.creating = FALSE,
                               !.sessionId = IF created THEN "session" ELSE "null"]
    /\ UNCHANGED <<pc, dataVars, approvalVars, approved, execVars, sched>>

\* updateWorkflowPhase, updateAgentState, store..., addError, setCustomData:
\* memory first, then the fire-and-forget persist
StateChange ==
    /\ disc.stage = "persist"
    /\ Len(disc.memory) < MaxChanges
    /\ \E type \in ChangeTypes :
          disc' = [disc EXCEPT
                      !.memory = Append(@, type),
                      !.messages = Append(@, persisterPersist(disc.client, disc.sessionId))]
    /\ UNCHANGED <<pc, dataVars, approvalVars, approved, execVars, sched>>

\* await client.sessions.storeMessage settles: stored, or the failure is
\* caught and logged
StoreMessageSettles ==
    /\ disc.stage = "persist"
    /\ \E n \in 1..Len(disc.messages) : \E stored \in BOOLEAN :
          /\ disc.messages[n] = "inflight"
          /\ disc' = [disc EXCEPT
                         !.messages[n] = IF stored THEN "stored" ELSE "failed"]
    /\ UNCHANGED <<pc, dataVars, approvalVars, approved, execVars, sched>>

InitPersist ==
    /\ pc = [r \in Runs |-> "absent"]
    /\ itinerary = [r \in Runs |-> Undefined]
    /\ planWarnings = [r \in Runs |-> Undefined]
    /\ bookingResults = [r \in Runs |-> Undefined]
    /\ registry = [r \in Runs |-> "none"]
    /\ promise = [r \in Runs |-> "none"]
    /\ approved = [r \in Runs |-> "none"]
    /\ resp = NoResp
    /\ bookable = [r \in Runs |-> <<>>]
    /\ nxt = [r \in Runs |-> 1]
    /\ att = [r \in Runs |-> [k \in 1..MaxOf(MaxItems, MaxGateItems) |-> IdleAtt]]
    /\ sched = SchedIdle
    /\ \E client \in BOOLEAN : disc = PersistStart(client)

NextPersist == InitSessionSettles \/ StateChange \/ StoreMessageSettles

SpecPersist == InitPersist /\ [][NextPersist]_vars

\* ---------------------------------------------------------------------------
\* Events API cache (GET /api/events): results of the discovery tools are
\* kept per query for CACHE_TTL_MS.
\* ---------------------------------------------------------------------------
CACHE_TTL_MS == 5 * 60 * 1000

\* instants of Date.now(), in ms, around one and two cache lifetimes
Times == {0, 299999, 300000, 300001, 600001, 600002}

\* query strings: the same date with and without a budget; limit and offset
\* absent (<<>>) or given
Queries ==
    { [date |-> "2026-03-07", budgetMax |-> b, limit |-> l, offset |-> o]
      : b \in {<<>>, <<"50">>}, l \in {<<>>, <<0>>, <<2>>}, o \in {<<>>, <<1>>} }

\* the merged lists the discovery tools can return for a query
DiscoveryLists == { <<"ev-a", "ev-b", "ev-c">>, <<"ev-b">>, <<>> }

\* JSON.stringify of { date, dateEnd, categories, budgetMax }
getCacheKey(params) == <<params.date, params.budgetMax>>

CacheKeys == { getCacheKey(q) : q \in Queries }

NoEntry == [present |-> FALSE, events |-> <<>>, timestamp |-> 0]

getCachedNoExpiry(cache, key, now) ==
    [hit |-> cache[key].present, events |-> cache[key].events, cache |-> cache]

\* getCached: null without an entry; an entry older than the TTL is deleted
getCached(cache, key, now) ==
    IF ~cache[key].present THEN [hit |-> FALSE, events |-> <<>>, cache |-> cache]
    ELSE IF now - cache[key].timestamp > CACHE_TTL_MS
      THEN [hit |-> FALSE, events |-> <<>>, cache |-> [cache EXCEPT ![key] = NoEntry]]
    ELSE [hit |-> TRUE, events |-> cache[key].events, cache |-> cache]

setCache(cache, key, events, now) ==
    [cache EXCEPT ![key] = [present |-> TRUE, events |-> events, timestamp |-> now]]

\* Math.min(Math.max(parseInt(limit, 10) || 20, 1), 100), limit = '20' if absent
limitNumOf(limit) ==
    LET parsed == IF limit = <<>> THEN 20 ELSE limit[1]
        orDefault == IF parsed = 0 THEN 20 ELSE parsed
    IN  MinOf(MaxOf(orDefault, 1), 100)

\* Math.max(parseInt(offset, 10) || 0, 0), offset = '0' if absent
offsetNumOf(offset) == MaxOf(IF offset = <<>> THEN 0 ELSE offset[1], 0)

\* Array.prototype.slice(from, to) with 0 <= from <= to
slice(list, from, to) == SubSeq(list, from + 1, MinOf(to, Len(list)))

\* res.json of the route; toolsInvoked, age (of the entry found at lookup) and
\* at (the instant of the answer) describe how the answer was made
eventsResponse(query, full, cached, age, at) ==
    [sent |-> TRUE, key |-> getCacheKey(query), full |-> full,
     events |-> slice(full, offsetNumOf(query.offset),
                      offsetNumOf(query.offset) + limitNumOf(query.limit)),
     total |-> Len(full), limit |-> limitNumOf(query.limit),
     offset |-> offsetNumOf(query.offset), cached |-> cached, toolsInvoked |-> ~cached,
     age |-> age, at |-> at]

NoEventsResponse ==
    [sent |-> FALSE, key |-> <<>>, full |-> <<>>, events |-> <<>>, total |-> 0,
     limit |-> 0, offset |-> 0, cached |-> FALSE, toolsInvoked |-> FALSE,
     age |-> <<>>, at |-> 0]

\* router.get('/') up to the await on the discovery tools: answered from the
\* cache, or the tools are invoked. age is the age of the entry found, <<>>
\* without one
GetEvents ==
    /\ disc.stage = "cache"
    /\ ~disc.pending.active
    /\ \E query \in Queries :
          LET key == getCacheKey(query)
              age == IF disc.cache[key].present
                       THEN <<disc.now - disc.cache[key].timestamp>> ELSE <<>>
              cached == getCached(disc.cache, key, disc.now)
          IN  IF cached.hit
                THEN disc' = [disc EXCEPT
                                 !.cache = cached.cache,
                                 !.last = eventsResponse(query, cached.events, TRUE,
                                                         age, disc.now)]
                ELSE disc' = [disc EXCEPT
                                 !.cache = cached.cache,
                                 !.pending = [active |-> TRUE, query |-> query, age |-> age],
                                 !.last = NoEventsResponse]
    /\ UNCHANGED <<pc, dataVars, approvalVars, approved, execVars, sched>>

\* the discovery tools have settled: the merged list is stored and a page of
\* it is returned
GetEventsSettles ==
    /\ disc.stage = "cache"
    /\ disc.pending.active
    /\ \E allEvents \in DiscoveryLists :
          disc' = [disc EXCEPT
                      !.cache = setCache(disc.cache, getCacheKey(disc.pending.query),
                                         allEvents, disc.now),
                      !.pending = [active |-> FALSE, query |-> disc.pending.query,
                                   age |-> <<>>],
                      !.last = eventsResponse(disc.pending.query, allEvents, FALSE,
                                              disc.pending.age, disc.now)]
    /\ UNCHANGED <<pc, dataVars, approvalVars, approved, execVars, sched>>

\* time passes
Tick ==
    /\ disc.stage = "cache"
    /\ \E t \in Times :
          /\ t > disc.now
          /\ disc' = [disc EXCEPT !.now = t, !.last = NoEventsResponse]
    /\ UNCHANGED <<pc, dataVars, approvalVars, approved, execVars, sched>>

InitCache ==
    /\ pc = [r \in Runs |-> "absent"]
    /\ itinerary = [r \in Runs |-> Undefined]
    /\ planWarnings = [r \in Runs |-> Undefined]
    /\ bookingResults = [r \in Runs |-> Undefined]
    /\ registry = [r \in Runs |-> "none"]
    /\ promise = [r \in Runs |-> "none"]
    /\ approved = [r \in Runs |-> "none"]
    /\ resp = NoResp
    /\ bookable = [r \in Runs |-> <<>>]
    /\ nxt = [r \in Runs |-> 1]
    /\ att = [r \in Runs |-> [k \in 1..MaxOf(MaxItems, MaxGateItems) |-> IdleAtt]]
    /\ sched = SchedIdle
    /\ disc = [stage |-> "cache", now |-> 0,
               cache |-> [k \in CacheKeys |-> NoEntry],
               pending |-> [active |-> FALSE,
                            query |-> CHOOSE q \in Queries : TRUE, age |-> <<>>],
               last |-> NoEventsResponse]

NextCache == GetEvents \/ GetEventsSettles \/ Tick

SpecCache == InitCache /\ [][NextCache]_vars

\* ---------------------------------------------------------------------------
\* Workflow phase of one run: the steps of planningPipelineWorkflow in order,
\* each with the phase it records in the run's context.
\* ---------------------------------------------------------------------------
MaxPhaseItems == 3

\* ContextManager.updateWorkflowPhase: currentPhase is set and the phase is
\* appended to the phase history
updateWorkflowPhase(run, phase) ==
    [run EXCEPT !.currentPhase = phase, !.phases = Append(@, phase)]

itineraryAfterRejectionKept(it) == it

\* "itinerary: undefined" in the output of a rejected plan
itineraryAfterRejection(it) == Undefined

\* initializeWorkflow has run and the workflow is about to start
PipelineStart ==
    [stage |-> "pipeline", step |-> "intent", currentPhase |-> "intent_parsing",
     phases |-> <<>>, rankedEvents |-> "undefined", itinerary |-> Undefined,
     approved |-> "none"]

\* intentStep
IntentStep ==
    /\ disc.stage = "pipeline"
    /\ disc.step = "intent"
    /\ disc' = [updateWorkflowPhase(disc, "event_discovery") EXCEPT !.step = "discovery"]
    /\ UNCHANGED <<pc, dataVars, approvalVars, approved, execVars, sched>>

\* the searches and mergeAndDeduplicateEvents: at least the injected event
MergeStep ==
    /\ disc.stage = "pipeline"
    /\ disc.step = "discovery"
    /\ disc' = [updateWorkflowPhase(disc, "recommendation") EXCEPT !.step = "ranking"]
    /\ UNCHANGED <<pc, dataVars, approvalVars, approved, execVars, sched>>

\* rankAndRecommend: the tool fails (rankedEvents undefined, phase left as it
\* is), or it returns ranked events, none or some
RankStep ==
    /\ disc.stage = "pipeline"
    /\ disc.step = "ranking"
    /\ \E rankResult \in {"error", "empty", "some"} :
          disc' = IF rankResult = "error"
                    THEN [disc EXCEPT !.step = "planning"]
                    ELSE [updateWorkflowPhase(disc, "itinerary_planning") EXCEPT
                             !.step = "planning", !.rankedEvents = rankResult]
    /\ UNCHANGED <<pc, dataVars, approvalVars, approved, execVars, sched>>

\* planItinerary: skipped without ranked events; otherwise an itinerary or
\* none, and the phase plan_approval in both cases
PlanStep ==
    /\ disc.stage = "pipeline"
    /\ disc.step = "planning"
    /\ IF disc.rankedEvents # "some"
         THEN disc' = [disc EXCEPT !.step = "approval"]
         ELSE \E n \in 0..MaxPhaseItems : \E kinds \in [1..n -> ItemKinds] :
              \E produced \in BOOLEAN :
                 /\ ~produced => n = 0
                 /\ disc' = [updateWorkflowPhase(disc, "plan_approval") EXCEPT
                                !.step = "approval",
                                !.itinerary =
                                    IF produced
                                      THEN Defined([i \in 1..n |-> MkItem(i, kinds[i])])
                                      ELSE Undefined]
    /\ UNCHANGED <<pc, dataVars, approvalVars, approved, execVars, sched>>

\* awaitApproval: skipped without an itinerary; a rejection records the
\* phase completed and clears the itinerary
ApprovalStep ==
    /\ disc.stage = "pipeline"
    /\ disc.step = "approval"
    /\ IF ~disc.itinerary.defined
         THEN disc' = [disc EXCEPT !.step = "execution"]
         ELSE \E decision \in BOOLEAN :
                 disc' = IF decision
                           THEN [disc EXCEPT !.step = "execution", !.approved = "yes"]
                           ELSE [updateWorkflowPhase(disc, "completed") EXCEPT
                                    !.step = "execution", !.approved = "no",
                                    !.itinerary = itineraryAfterRejection(disc.itinerary)]
    /\ UNCHANGED <<pc, dataVars, approvalVars, approved, execVars, sched>>

\* executeBookings up to the booking loop: returns at once without an
\* itinerary or without bookable items
ExecutionStepStart ==
    /\ disc.stage = "pipeline"
    /\ disc.step = "execution"
    /\ disc' = IF PassThrough(disc.itinerary) \/ Len(Filter(disc.itinerary.list, 1)) = 0
                 THEN [disc EXCEPT !.step = "finished"]
                 ELSE [updateWorkflowPhase(disc, "booking_execution") EXCEPT
                          !.step = "booking"]
    /\ UNCHANGED <<pc, dataVars, approvalVars, approved, execVars, sched>>

\* executeBookings after the booking loop
ExecutionStepFinish ==
    /\ disc.stage = "pipeline"
    /\ disc.step = "booking"
    /\ disc' = [updateWorkflowPhase(disc, "completed") EXCEPT !.step = "finished"]
    /\ UNCHANGED <<pc, dataVars, approvalVars, approved, execVars, sched>>

InitPipeline ==
    /\ pc = [r \in Runs |-> "absent"]
    /\ itinerary = [r \in Runs |-> Undefined]
    /\ planWarnings = [r \in Runs |-> Undefined]
    /\ bookingResults = [r \in Runs |-> Undefined]
    /\ registry = [r \in Runs |-> "none"]
    /\ promise = [r \in Runs |-> "none"]
    /\ approved = [r \in Runs |-> "none"]
    /\ resp = NoResp
    /\ bookable = [r \in Runs |-> <<>>]
    /\ nxt = [r \in Runs |-> 1]
    /\ att = [r \in Runs |-> [k \in 1..MaxOf(MaxItems, MaxGateItems) |-> IdleAtt]]
    /\ sched = SchedIdle
    /\ disc = PipelineStart

NextPipeline ==
    \/ IntentStep
    \/ MergeStep
    \/ RankStep
    \/ PlanStep
    \/ ApprovalStep
    \/ ExecutionStepStart
    \/ ExecutionStepFinish

SpecPipeline == InitPipeline /\ [][NextPipeline]_vars

\* ---------------------------------------------------------------------------
\* The automation backend under two runs: every browser primitive is one
\* invocation of the actionbook binary through execCLI. The argument lists
\* ('browser', 'open', url), ('browser', 'snapshot'), ('browser', 'close')
\* name no run and no session, and both runs call from the same process, so
\* the invocations of both runs address the same browser session.
\* ---------------------------------------------------------------------------
MaxFlowCommands == 2

FlowCommands == {"click", "fill", "evaluate"}

NoPage == "none"

\* the shared session: the page it shows is the one opened last, named by the
\* run whose booking URL it is
NoSession == [page |-> NoPage]

\* execCLI: the command acts on the session as it is when the process runs;
\* the log entry records the page the command acted on
execCLI(backend, run, cmd, success) ==
    LET session == backend.session
        after == IF cmd = "open" THEN (IF success THEN [page |-> run] ELSE session)
                 ELSE IF cmd = "close" THEN NoSession
                 ELSE session
        entry == [run |-> run, cmd |-> cmd,
                  page |-> IF cmd = "open" THEN after.page ELSE session.page]
    IN  [backend EXCEPT !.session = after, !.log = Append(@, entry)]

AtCommand(r, position) ==
    /\ disc.stage = "browser"
    /\ disc.tpc[r] = position

\* step 3 of the booking tool: browserOpen; a failure returns page_error
\* without a close
browserOpen(r) ==
    /\ AtCommand(r, "open")
    /\ \E success \in BOOLEAN :
          disc' = [execCLI(disc, r, "open", success) EXCEPT
                      !.tpc[r] = IF success THEN "snapshot" ELSE "returned"]
    /\ UNCHANGED <<pc, dataVars, approvalVars, approved, execVars, sched>>

\* step 4: browserSnapshot; a blocking condition leads to the close
browserSnapshot(r) ==
    /\ AtCommand(r, "snapshot")
    /\ \E blocked \in BOOLEAN :
          disc' = [execCLI(disc, r, "snapshot", TRUE) EXCEPT
                      !.tpc[r] = IF blocked THEN "close" ELSE "flow"]
    /\ UNCHANGED <<pc, dataVars, approvalVars, approved, execVars, sched>>

\* step 5: the clicks, fills and evaluations of the booking flow, one
\* command at a time
browserCommand(r) ==
    /\ AtCommand(r, "flow")
    /\ \E cmd \in FlowCommands, last \in BOOLEAN :
          disc' = [execCLI(disc, r, cmd, TRUE) EXCEPT
                      !.flow[r] = @ + 1,
                      !.tpc[r] = IF last \/ disc.flow[r] + 1 >= MaxFlowCommands
                                   THEN "close" ELSE "flow"]
    /\ UNCHANGED <<pc, dataVars, approvalVars, approved, execVars, sched>>

\* browserClose at the end of the attempt
browserClose(r) ==
    /\ AtCommand(r, "close")
    /\ disc' = [execCLI(disc, r, "close", TRUE) EXCEPT !.tpc[r] = "returned"]
    /\ UNCHANGED <<pc, dataVars, approvalVars, approved, execVars, sched>>

\* two approved runs, each at the booking attempt of its one bookable item
InitBrowser ==
    /\ pc = [r \in Runs |-> "booking"]
    /\ itinerary = [r \in Runs |-> Undefined]
    /\ planWarnings = [r \in Runs |-> Undefined]
    /\ bookingResults = [r \in Runs |-> Defined(<<>>)]
    /\ registry = [r \in Runs |-> "resolved"]
    /\ promise = [r \in Runs |-> "true"]
    /\ approved = [r \in Runs |-> "true"]
    /\ resp = NoResp
    /\ bookable = [r \in Runs |-> <<>>]
    /\ nxt = [r \in Runs |-> 1]
    /\ att = [r \in Runs |-> [k \in 1..MaxOf(MaxItems, MaxGateItems) |-> IdleAtt]]
    /\ sched = SchedIdle
    /\ disc = [stage |-> "browser", tpc |-> [r \in Runs |-> "open"],
               flow |-> [r \in Runs |-> 0], session |-> NoSession, log |-> <<>>]

NextBrowser ==
    \E r \in Runs :
       \/ browserOpen(r)
       \/ browserSnapshot(r)
       \/ browserCommand(r)
       \/ browserClose(r)

SpecBrowser == InitBrowser /\ [][NextBrowser]_vars

\* ---------------------------------------------------------------------------
\* The scheduler on drafts that state their own budget status
\* ---------------------------------------------------------------------------
MaxBudgetItems == 2

\* "budgetStatus: z.enum([...]).default('within_budget')"
BudgetStatuses == {"within_budget", "slightly_over", "over_budget"}

InitBudget ==
    /\ pc = [r \in Runs |-> "absent"]
    /\ itinerary = [r \in Runs |-> Undefined]
    /\ planWarnings = [r \in Runs |-> Undefined]
    /\ bookingResults = [r \in Runs |-> Undefined]
    /\ registry = [r \in Runs |-> "none"]
    /\ promise = [r \in Runs |-> "none"]
    /\ approved = [r \in Runs |-> "none"]
    /\ resp = NoResp
    /\ bookable = [r \in Runs |-> <<>>]
    /\ nxt = [r \in Runs |-> 1]
    /\ att = [r \in Runs |-> [k \in 1..MaxOf(MaxItems, MaxGateItems) |-> IdleAtt]]
    /\ disc = DiscIdle
    /\ \E n \in 1..MaxBudgetItems : \E kinds \in [1..n -> DraftKinds] :
       \E status \in BudgetStatuses :
          sched = [stage |-> "input",
                   llmPlan |-> [items |-> Draft(kinds), budgetStatus |-> status],
                   rankedEvents |-> RankedEvents, date |-> 1,
                   budgetMax |-> <<50>>, partySize |-> 2,
                   plan |-> <<>>, result |-> NoResult]

SpecBudget == InitBudget /\ [][NextSched]_vars

\* ------------------------------------------------------------------------
\* Specification of one run from the approval gate on, with approval calls
\* for both run ids
\* ------------------------------------------------------------------------
Init ==
    /\ pc = [r \in Runs |-> IF r = "r1" THEN "approval" ELSE "absent"]
    /\ \E it \in {Undefined} \cup { Defined(s) : s \in Itineraries(MaxGateItems) } :
          itinerary = [r \in Runs |-> IF r = "r1" THEN it ELSE Undefined]
    /\ planWarnings =
          [r \in Runs |-> IF r = "r1" THEN Defined(<<"Excessive gap">>) ELSE Undefined]
    /\ bookingResults = [r \in Runs |-> Undefined]
    /\ registry = [r \in Runs |-> "none"]
    /\ promise = [r \in Runs |-> "none"]
    /\ approved = [r \in Runs |-> "none"]
    /\ resp = NoResp
    /\ bookable = [r \in Runs |-> <<>>]
    /\ nxt = [r \in Runs |-> 1]
    /\ att = [r \in Runs |-> [k \in 1..MaxOf(MaxItems, MaxGateItems) |-> IdleAtt]]
    /\ sched = SchedIdle
    /\ disc = DiscIdle

ToolStep(r, k) ==
    \/ FetchActionManual(r, k)
    \/ OpenPage(r, k)
    \/ SnapshotPage(r, k)
    \/ ClickBooking(r, k)
    \/ CheckoutStep(r, k)
    \/ CaptureConfirmation(r, k)
    \/ ToolCatch(r, k)

Next ==
    \/ \E id \in Runs, b \in {"true", "false", "missing"} : ApproveEndpoint(id, b)
    \/ DeliverResponse
    \/ \E id \in Runs : ExpireApproval(id)
    \/ \E r \in Runs :
          \/ AwaitApproval(r)
          \/ ApprovalResumes(r)
          \/ ExecuteBookings(r)
          \/ CallTool(r)
          \/ FinishBookings(r)
          \/ \E k \in 1..MaxGateItems : ToolStep(r, k) \/ PushResult(r, k)

Spec == Init /\ [][Next]_vars

\* ------------------------------------------------------------------------
\* Specification of the booking execution of an approved run: the state in
\* which awaitApproval returned the approved itinerary, and the steps of
\* executeBookings and of the booking tool
\* ------------------------------------------------------------------------
InitBooking ==
    /\ pc = [r \in Runs |-> IF r = "r1" THEN "execution" ELSE "absent"]
    /\ \E s \in Itineraries(MaxItems) :
          itinerary = [r \in Runs |-> IF r = "r1" THEN Defined(s) ELSE Undefined]
    /\ planWarnings =
          [r \in Runs |-> IF r = "r1" THEN Defined(<<"Excessive gap">>) ELSE Undefined]
    /\ bookingResults = [r \in Runs |-> Undefined]
    /\ registry = [r \in Runs |-> IF r = "r1" THEN "resolved" ELSE "none"]
    /\ promise = [r \in Runs |-> IF r = "r1" THEN "true" ELSE "none"]
    /\ approved = [r \in Runs |-> IF r = "r1" THEN "true" ELSE "none"]
    /\ resp = NoResp
    /\ bookable = [r \in Runs |-> <<>>]
    /\ nxt = [r \in Runs |-> 1]
    /\ att = [r \in Runs |-> [k \in 1..MaxOf(MaxItems, MaxGateItems) |-> IdleAtt]]
    /\ sched = SchedIdle
    /\ disc = DiscIdle

NextBooking ==
    \E r \in Runs :
       \/ ExecuteBookings(r)
       \/ CallTool(r)
       \/ FinishBookings(r)
       \/ \E k \in 1..MaxItems : ToolStep(r, k) \/ PushResult(r, k)

SpecBooking == InitBooking /\ [][NextBooking]_vars

\* ------------------------------------------------------------------------
\* Properties
\* ------------------------------------------------------------------------
Decisions == {"true", "false"}

\* an approval call is answered in this step
DecisionCall == resp = NoResp /\ resp' # NoResp /\ resp'.approved \in Decisions

Started(a) == a.tpc # "idle"

InFlight(a) == a.tpc \notin {"idle", "done"}

BlockingPhrases ==
    SoldOutPhrases \cup WaitlistPhrases \cup CaptchaPhrases \cup LoginPhrases

BlockingStatusOf(p) ==
    IF p \in SoldOutPhrases THEN "sold_out"
    ELSE IF p \in WaitlistPhrases THEN "waitlist"
    ELSE IF p \in CaptchaPhrases THEN "captcha_blocked"
    ELSE "login_required"

ConfirmationSignals == {"order#", "ref:num", "thanks"}

\* C1: once the approval of a run is resolved with a decision, every later
\* decision call for that run is rejected with 404 or 409 and the decision
\* the pipeline observes stays the first one; a decision call for a run id
\* without a registry entry answers 404 and neither resolves nor creates
\* anything.
C1_ResolvedOnce ==
    [][ /\ DecisionCall =>
             /\ promise[resp'.id] \in Decisions =>
                   /\ resp'.code \in {404, 409}
                   /\ promise' = promise
             /\ registry[resp'.id] = "none" =>
                   /\ resp'.code = 404
                   /\ registry' = registry
                   /\ promise' = promise
        /\ \A r \in Runs :
             /\ promise[r] \in Decisions => promise'[r] = promise[r]
             /\ approved[r] \in Decisions => approved'[r] = approved[r]
             /\ approved'[r] \in Decisions => approved'[r] = promise'[r]
      ]_vars

\* a rejection attempted after an approval is answered 409, the decision is
\* still the approval
C1_Witness ==
    /\ resp.id = "r1" /\ resp.approved = "false" /\ resp.code = 409
    /\ promise["r1"] = "true"
    /\ approved["r1"] = "true"

\* C2: a booking attempt of a run exists only after the run's approval was
\* resolved with true; while the run is at the gate, unresolved, nothing of
\* the execution step has happened.
C2_NoBookingBeforeApproval ==
    \A r \in Runs :
       /\ (\E k \in DOMAIN att[r] : Started(att[r][k])) =>
             promise[r] = "true" /\ approved[r] = "true"
       /\ (pc[r] = "booking" \/ bookable[r] # <<>>) =>
             promise[r] = "true" /\ approved[r] = "true"
       /\ (pc[r] \in {"approval", "awaiting"} /\ promise[r] \notin Decisions) =>
             /\ \A k \in DOMAIN att[r] : ~Started(att[r][k])
             /\ ~bookingResults[r].defined
             /\ bookable[r] = <<>>

\* the browser of an approved run's item has been opened
C2_Witness ==
    /\ promise["r1"] = "true"
    /\ pc["r1"] = "booking"
    /\ att["r1"][1].opened

\* C3: a rejected run ends with the itinerary undefined, the single plan
\* warning 'Plan rejected by user', no booking results and not one booking
\* attempt.
C3_RejectionSkipsExecution ==
    \A r \in Runs :
       approved[r] = "false" =>
          /\ ~itinerary[r].defined
          /\ planWarnings[r] = Defined(<<"Plan rejected by user">>)
          /\ ~bookingResults[r].defined
          /\ pc[r] \in {"execution", "finished"}
          /\ bookable[r] = <<>>
          /\ \A k \in DOMAIN att[r] : ~Started(att[r][k])

C3_Witness ==
    /\ approved["r1"] = "false"
    /\ pc["r1"] = "finished"

\* C4: for a non-empty approved itinerary the loop pushes one result per
\* bookable item, in itinerary order and with that item's event id, whatever
\* the earlier items ended with (failure status, invalid tool result, thrown
\* error); when the step has finished the list covers every bookable item.
C4_OneResultPerBookableItem ==
    \A r \in Runs :
       (/\ itinerary[r].defined /\ itinerary[r].list # <<>>
        /\ pc[r] \in {"booking", "finished"}) =>
          LET items == itinerary[r].list
              wanted == SelectSeq(items,
                           LAMBDA it : it.source # "planned" /\ it.hasUrl)
              results == bookingResults[r].list
              settled == Cardinality({k \in 1..Len(wanted) : att[r][k].tpc = "done"})
          IN  /\ bookingResults[r].defined
              /\ Len(results) <= Len(wanted)
              /\ \A k \in 1..Len(results) : results[k].eventId = wanted[k].id
              /\ pc[r] = "booking" => Len(results) = settled
              /\ pc[r] = "finished" => Len(results) = Len(wanted)

\* the first item failed, the second was still attempted and succeeded
C4_Witness ==
    /\ pc["r1"] = "finished"
    /\ Len(bookingResults["r1"].list) = 2
    /\ bookingResults["r1"].list[1].status = "failed"
    /\ bookingResults["r1"].list[2].status = "success"

\* C5: an item is 'success' only if the page text read after the checkout
\* loop carries a confirmation signal; an attempt that reached the
\* confirmation step without one is 'failed'.
C5_SuccessNeedsConfirmation ==
    \A r \in Runs :
       /\ \A k \in DOMAIN att[r] :
             LET a == att[r][k]
             IN  /\ a.status = "success" =>
                       /\ a.captured
                       /\ a.pageText \cap ConfirmationSignals # {}
                       /\ a.conf # "undefined"
                 /\ (a.captured /\ a.pageText \cap ConfirmationSignals = {}) =>
                       a.status = "failed" /\ a.conf = "undefined"
       /\ \A i \in 1..Len(bookingResults[r].list) :
             bookingResults[r].list[i].status = "success" =>
                bookingResults[r].list[i].conf # "undefined"

\* the checkout loop saw the form submitted, the page read afterwards has no
\* confirmation signal: failed
C5_Witness ==
    \E k \in DOMAIN att["r1"] :
       /\ att["r1"][k].submitted
       /\ att["r1"][k].captured
       /\ att["r1"][k].pageText = {"ref:word"}
       /\ att["r1"][k].status = "failed"

\* C6: when the first snapshot contains a blocking phrase, the attempt
\* returns at once with the status of a phrase it contains, and after the
\* snapshot nothing is issued but the close: no click, fill, evaluate or
\* checkout step.
C6_BlockingStopsAutomation ==
    \A r \in Runs : \A k \in DOMAIN att[r] :
       LET a == att[r][k]
       IN  (a.snapped /\ a.snapshot \cap BlockingPhrases # {}) =>
              /\ a.tpc = "returned"
              /\ \E p \in a.snapshot \cap BlockingPhrases :
                    a.status = BlockingStatusOf(p)
              /\ a.actionType = "book"
              /\ ~a.acted /\ a.step = 0 /\ ~a.filled /\ ~a.clicked
              /\ ~a.captured
              /\ a.closes = 1

C6_Witness ==
    \E k \in DOMAIN att["r1"] :
       /\ att["r1"][k].snapshot = {"hcaptcha"}
       /\ att["r1"][k].status = "captcha_blocked"
       /\ att["r1"][k].closes = 1

\* C7: every attempt that issued the open has attempted a close by the time
\* it returns its result.
C7_CloseOnEveryPath ==
    \A r \in Runs : \A k \in DOMAIN att[r] :
       (att[r][k].tpc = "returned" /\ att[r][k].opened) => att[r][k].closes >= 1

\* C8: the tool call for an item starts only after the calls for all earlier
\* items have produced their results, so at most one attempt of a run is in
\* progress.
C8_Sequential ==
    \A r \in Runs :
       /\ \A j \in DOMAIN att[r], k \in DOMAIN att[r] :
             (j < k /\ Started(att[r][k])) => att[r][j].tpc = "done"
       /\ Cardinality({k \in DOMAIN att[r] : InFlight(att[r][k])}) <= 1

\* the second item's page is open, the first attempt has settled
C8_Witness ==
    /\ att["r1"][1].tpc = "done"
    /\ Len(bookingResults["r1"].list) = 1
    /\ att["r1"][2].opened
    /\ att["r1"][2].tpc = "snapshot"

\* positions in the draft of the items of a list
DraftPositions(items) == [k \in 1..Len(items) |-> items[k].draft]

MainPositions(items) == { i \in 1..Len(items) : items[i].isMainEvent }

ComplementaryPositions(items) == { i \in 1..Len(items) : ~items[i].isMainEvent }

\* C9: the itinerary the scheduler returns for a schema-valid draft has at
\* most 4 items.
C9_AtMostFourItems ==
    (sched.stage = "done" /\ schemaValid(sched.llmPlan)) =>
       Len(sched.result.itinerary.items) <= 4

\* C10: for a draft of more than 4 items with m <= 4 main events, the plan
\* after the cap holds all m main events and the first 4 - m complementary
\* items of the draft, ordered by draft start time with equal starts in draft
\* order; the returned items are those of the capped plan that were not
\* dropped, ordered by scheduled start; a draft of 2 main and 4
\* complementary items none of which ends past the cutoff returns exactly 4
\* items.
C10_CapKeepsMainsAndFirstComplementary ==
    LET draft == sched.llmPlan.items
        mains == MainPositions(draft)
        comps == ComplementaryPositions(draft)
        m == Cardinality(mains)
        firstComps == { i \in comps :
                          Cardinality({ j \in comps : j < i }) < 4 - m }
        plan == sched.plan
        out == sched.result.itinerary.items
        late == { i \in comps : draft[i].endTime.h * 60 + draft[i].endTime.m > 23 * 60 }
    IN  (sched.stage = "done" /\ Len(draft) > 4 /\ m <= 4) =>
           /\ Len(plan) = 4
           /\ { plan[k].draft : k \in 1..4 } = mains \cup firstComps
           /\ \A k \in 1..4 : plan[k] = draft[plan[k].draft]
           /\ \A j \in 1..4, k \in 1..4 :
                 j < k =>
                    LET a == plan[j].startTime.h * 60 + plan[j].startTime.m
                        b == plan[k].startTime.h * 60 + plan[k].startTime.m
                    IN  a < b \/ (a = b /\ plan[j].draft < plan[k].draft)
           /\ { out[k].draft : k \in 1..Len(out) } = (mains \cup firstComps) \ late
           /\ Len(out) = Cardinality((mains \cup firstComps) \ late)
           /\ \A j \in 1..Len(out), k \in 1..Len(out) :
                 j < k =>
                    (out[j].scheduledTime.start.day * 24
                        + out[j].scheduledTime.start.h) * 60
                        + out[j].scheduledTime.start.m
                    <= (out[k].scheduledTime.start.day * 24
                        + out[k].scheduledTime.start.h) * 60
                        + out[k].scheduledTime.start.m
           /\ (m = 2 /\ Cardinality(comps) = 4 /\ late = {}) => Len(out) = 4

\* 2 main and 4 complementary items, none late, given out of time order: the
\* cap keeps draft items 1 to 4 and orders them coffee, dinner, jazz, gig
C10_Witness ==
    /\ sched.stage = "done"
    /\ Len(sched.llmPlan.items) = 6
    /\ Cardinality(MainPositions(sched.llmPlan.items)) = 2
    /\ \A i \in 1..6 : sched.llmPlan.items[i].endTime.h < 23
                       \/ sched.llmPlan.items[i].isMainEvent
    /\ DraftPositions(sched.plan) = <<3, 1, 2, 4>>
    /\ sched.plan[4].name.words = <<"secret", "gig">>
    /\ DraftPositions(sched.result.itinerary.items) = <<3, 1, 2, 4>>

\* index of the ranked event a draft name is expected to match, 0 for none:
\* "Jazz Night", "Jazz Night!", "jazz" and the empty name are matched to
\* ev-1 (exact, normalized, contained), "comedy club" to ev-2 (two of three
\* words in common)
ExpectedMatch(name) ==
    IF name.words \in { <<"jazz", "night">>, <<"jazz">>, <<>> } THEN 1
    ELSE IF name.words = <<"comedy", "club">> THEN 2
    ELSE 0

\* C11: every returned item that comes from a draft item flagged as main
\* event whose name matches a ranked event carries that event, and its
\* scheduledTime start and end are exactly the event's timeSlot start and
\* end, whatever times the draft proposed.
C11_MatchedMainKeepsRealSlot ==
    (sched.stage = "done" /\ Len(sched.llmPlan.items) >= 1) =>
       \A k \in 1..Len(sched.result.itinerary.items) :
          LET it == sched.result.itinerary.items[k]
              d == sched.llmPlan.items[it.draft]
              e == ExpectedMatch(d.name)
          IN  (d.isMainEvent /\ e # 0) =>
                 /\ it.event.id = sched.rankedEvents[e].id
                 /\ it.scheduledTime.start = sched.rankedEvents[e].timeSlot.start
                 /\ it.scheduledTime.end = sched.rankedEvents[e].timeSlot.end

\* "comedy club" proposed at 20:00-22:00 is scheduled at the 19:00-20:30 SGT
\* slot of ev-2 (11:00-12:30 UTC)
C11_Witness ==
    /\ sched.stage = "done"
    /\ \E k \in 1..Len(sched.result.itinerary.items) :
          LET it == sched.result.itinerary.items[k]
              d == sched.llmPlan.items[it.draft]
          IN  /\ d.isMainEvent
              /\ d.name.words = <<"comedy", "club">>
              /\ d.startTime = [h |-> 20, m |-> 0]
              /\ it.event.id = "ev-2"
              /\ it.scheduledTime = [start |-> [day |-> 1, h |-> 11, m |-> 0],
                                     end |-> [day |-> 1, h |-> 12, m |-> 30]]
              /\ "Time correction" \in
                    { sched.result.warnings[w] : w \in 1..Len(sched.result.warnings) }

\* number of times a warning of the given kind was pushed
CountWarnings(warnings, kind) ==
    Cardinality({ w \in 1..Len(warnings) : warnings[w] = kind })

C13_InvalidDraftFallsBack ==
    LET draft == sched.llmPlan.items
        invalid == \/ Len(draft) = 0
                   \/ \E i \in 1..Len(draft) :
                         \/ draft[i].estimatedCostPerPerson < 0
                         \/ draft[i].durationMinutes < 0
        out == sched.result.itinerary.items
    IN  (sched.stage = "done" /\ invalid) =>
           /\ Len(out) = 1
           /\ out[1].event = sched.rankedEvents[1]
           /\ out[1].scheduledTime = sched.rankedEvents[1].timeSlot
           /\ Len(sched.result.warnings) >= 1
           /\ sched.result.warnings[1] = "LLM plan validation failed"

\* a draft with a negative cost, ev-2 ranked first: the fallback is ev-2
C13_Witness ==
    /\ sched.stage = "done"
    /\ Len(sched.llmPlan.items) = 2
    /\ sched.llmPlan.items[2].estimatedCostPerPerson < 0
    /\ Len(sched.rankedEvents) = 2
    /\ sched.rankedEvents[1].id = "ev-2"
    /\ Len(sched.result.itinerary.items) = 1
    /\ sched.result.itinerary.items[1].event.id = "ev-2"
    /\ sched.result.warnings = <<"LLM plan validation failed">>

\* C14: when the Planning Agent throws or returns a text that holds no plan,
\* and at least one ranked event exists, the planning step still outputs an
\* itinerary with at least one item.
C14_PlanningFallsBack ==
    (/\ sched.stage = "planned"
     /\ sched.outcome \in {"throws", "prose", "broken", "null"}
     /\ Len(sched.rankedEvents) >= 1)
       => /\ sched.out.hasItinerary
          /\ Len(sched.out.itinerary.items) >= 1

\* C15: dedupe is idempotent: a second pass over the merged output of a
\* first pass returns the same list and removes nothing.
C15_DedupeIdempotent ==
    (disc.stage = "dedupe" /\ disc.passes = 2) =>
       /\ disc.events = disc.previous
       /\ disc.removedCount = 0

\* C16: after a dedupe pass no two events of the merged output have
\* sourceUrls that normalize to the same string.
C16_NoTwoEventsShareUrl ==
    (disc.stage = "dedupe" /\ disc.passes = 1) =>
       \A i, j \in 1..Len(disc.events) :
          (/\ i < j
           /\ Len(disc.events[i].sourceUrl) > 0
           /\ Len(disc.events[j].sourceUrl) > 0)
             => normalizeUrl(disc.events[i].sourceUrl)
                  # normalizeUrl(disc.events[j].sourceUrl)

\* hard filters of the ranker, stated on the step's own inputs
SatisfiesHardFilters(event) ==
    /\ event.availability # "sold_out"
    /\ event.category \notin disc.agentEnrichment.excludedCategories
    /\ (disc.constraints.budget.max # <<>> /\ event.priceMin # <<>>)
          => event.priceMin[1] <= disc.constraints.budget.max[1]

\* C17: every ranked event (of the tool's list and of the step's output)
\* satisfies the hard filters: price within the budget maximum, category not
\* excluded, not sold out; with budgetMax 50 and events priced 20 and 60
\* only the 20-priced event is ranked.
C17_RankedPassHardFilters ==
    (disc.stage = "ranked" /\ disc.out.rankedEvents.defined) =>
       /\ \A i \in 1..Len(disc.out.rankResult.list) :
             SatisfiesHardFilters(disc.out.rankResult.list[i].event)
       /\ \A i \in 1..Len(disc.out.rankedEvents.list) :
             SatisfiesHardFilters(disc.out.rankedEvents.list[i].event)
       /\ (/\ disc.constraints.budget.max = <<50>>
           /\ Len(disc.events) = 2
           /\ {disc.events[i].priceMin : i \in 1..2} = {<<20>>, <<60>>})
             => /\ Len(disc.out.rankResult.list) = 1
                /\ disc.out.rankResult.list[1].event.priceMin = <<20>>
                /\ disc.out.rankedEvents.list = disc.out.rankResult.list

\* budgetMax 50, events priced 60 and 20: only the 20-priced one is ranked
C17_Witness ==
    /\ disc.stage = "ranked"
    /\ disc.constraints.budget.max = <<50>>
    /\ Len(disc.events) = 2
    /\ disc.events[1].priceMin = <<60>>
    /\ disc.events[2].priceMin = <<20>>
    /\ disc.out.rankedEvents.defined
    /\ Len(disc.out.rankedEvents.list) = 1
    /\ disc.out.rankedEvents.list[1].event.id = "r1"

\* C18: the tool's ranked list is in non-increasing score order, and the
\* first event of the step's output has the maximum score among the input
\* events that pass the hard filters.
C18_TopPickHasMaxScore ==
    (disc.stage = "ranked" /\ disc.out.rankedEvents.defined) =>
       LET ranked == disc.out.rankResult.list
           picks == disc.out.rankedEvents.list
       IN  /\ \A i \in 1..(Len(ranked) - 1) : ranked[i].score >= ranked[i + 1].score
           /\ (\E i \in 1..Len(disc.events) : SatisfiesHardFilters(disc.events[i]))
                 => /\ Len(picks) >= 1
                    /\ \A i \in 1..Len(disc.events) :
                          SatisfiesHardFilters(disc.events[i])
                             => picks[1].score >= scoreEvent(disc.events[i])

\* three events pass, the best-scored one is last in the input and first
\* in the output
C18_Witness ==
    /\ disc.stage = "ranked"
    /\ Len(disc.events) = 3
    /\ disc.out.rankedEvents.defined
    /\ Len(disc.out.rankResult.list) = 3
    /\ disc.events[3].id = "r2"
    /\ disc.events[1].id = "r5"
    /\ disc.out.rankedEvents.list[1].event.id = "r2"
    /\ disc.out.rankResult.list[3].event.id = "r5"

\* C19: one call of fetchWithRetry with the default retries issues at most
\* 3 HTTP requests.
C19_AtMostThreeRequests ==
    disc.stage = "fetch" => Len(disc.log) <= 3

\* C20: a 4xx response other than 429 is the last request of the call, which
\* fails at once without a sleep; a 429, a 5xx or a network error met while
\* attempts remain is followed by a sleep and, when the call is over, by
\* another request.
C20_ClientErrorFailsAtOnce ==
    disc.stage = "fetch" =>
       \A k \in 1..Len(disc.log) :
          LET o == disc.log[k]
              clientError == /\ o.kind = "response"
                             /\ o.status >= 400 /\ o.status <= 499
                             /\ o.status # 429
              retryable == \/ o.kind = "networkError"
                           \/ o.status = 429
                           \/ o.status >= 500
          IN  /\ clientError => /\ k = Len(disc.log)
                                /\ disc.result = "thrown"
                                /\ disc.sleeps[k] = <<>>
              /\ (retryable /\ k - 1 < disc.retries)
                    => /\ Len(disc.sleeps[k]) = 1
                       /\ disc.result # "pending" => Len(disc.log) > k

\* ids of the events of a list
IdsOf(events) == {events[i].id : i \in 1..Len(events)}

\* C21: a search that settled through the tool's own code returned a result
\* object; without credentials, or with a live call that failed, its mode is
\* 'demo' and its events come from the source's demo dataset; its mode is
\* 'live' only when the live call succeeded.
C21_SearchNeverRaises ==
    disc.stage = "discovery" =>
       \A source \in Sources :
          disc.live[source] \notin {"none", "rejected"} =>
             LET result == disc.results[source]
                 liveOk == disc.credentials[source] /\ disc.live[source] = "ok"
             IN  /\ disc.settled[source] = "fulfilled"
                 /\ result.source = source
                 /\ result.mode \in {"live", "demo"}
                 /\ result.mode = "live" <=> liveOk
                 /\ ~liveOk => /\ result.mode = "demo"
                               /\ IdsOf(result.events) \subseteq IdsOf(DemoEvents(source))
                 /\ (disc.credentials[source] /\ ~liveOk)
                       => /\ result.events = DemoEvents(source)
                          /\ result.error # <<>>

\* eventfinda has credentials and its live call failed while parsing:
\* the whole demo dataset in mode 'demo'
C21_Witness ==
    /\ disc.stage = "discovery"
    /\ disc.credentials["eventfinda"]
    /\ disc.live["eventfinda"] = "mapError"
    /\ disc.settled["eventfinda"] = "fulfilled"
    /\ disc.results["eventfinda"].mode = "demo"
    /\ Len(disc.results["eventfinda"].events) = 2

C23_AtMostSixIterations ==
    disc.stage = "checkout" =>
       /\ disc.step <= 6
       /\ Len(disc.acts) <= 6
       /\ Len(disc.texts) <= 6
       /\ disc.step = 6 => disc.exit # "running"

\* six iterations that each changed the page and clicked: the loop ended
C23_Witness ==
    /\ disc.stage = "checkout"
    /\ disc.step = 6
    /\ disc.exit = "maxSteps"
    /\ \A i \in 1..6 : disc.acts[i].clicked

\* C24: when the page text extracted at three consecutive steps is the same,
\* the loop ends at the third of them without a fill or click in that step,
\* whatever the text.
C24_StuckTextEndsLoop ==
    disc.stage = "checkout" =>
       \A n \in 3..Len(disc.texts) :
          (disc.texts[n - 2] = disc.texts[n - 1] /\ disc.texts[n - 1] = disc.texts[n])
             => /\ Len(disc.texts) = n
                /\ disc.exit = "stuck"
                /\ Len(disc.acts) = n - 1

\* C25: an iteration in which nothing was filled and nothing was clicked is
\* the last one: the loop has ended and no iteration follows it.
C25_NoActionIsLastStep ==
    disc.stage = "checkout" =>
       \A n \in 1..Len(disc.acts) :
          (~disc.acts[n].filled /\ ~disc.acts[n].clicked)
             => /\ n = Len(disc.acts)
                /\ n = Len(disc.texts)
                /\ disc.exit = "noAction"

\* two iterations filled or clicked, the third did neither and ended the loop
C25_Witness ==
    /\ disc.stage = "checkout"
    /\ Len(disc.acts) = 3
    /\ disc.acts[1].filled
    /\ disc.acts[2].clicked
    /\ ~disc.acts[3].filled /\ ~disc.acts[3].clicked
    /\ disc.exit = "noAction"

\* C26: every run context inserted into the registry is eventually deleted,
\* whichever way the run ended, an error while starting the run included.
C26_EveryContextIsDeleted ==
    \A w \in Workflows :
        (disc.stage = "context" /\ disc.ctx[w].entry) ~> ~disc.ctx[w].entry

\* C27: no item whose Event was synthesized by the scheduler (a complementary
\* activity or an unmatched main item) is passed to the booking tool: every
\* bookable item is anchored to one of the ranked events.
C27_OnlyRealEventsAreBooked ==
    disc.stage = "execution" =>
        \A k \in 1..Len(disc.bookableItems) :
            \E e \in 1..Len(sched.rankedEvents) :
                disc.bookableItems[k].event = sched.rankedEvents[e]

\* C28: when a matched main item is scheduled at a start or end that differs
\* from the start or end its draft proposed on the itinerary date, the
\* warning list holds a time-correction warning.
C28_OverrideIsWarned ==
    sched.stage = "done" =>
        \A k \in 1..Len(sched.result.itinerary.items) :
            LET item == sched.result.itinerary.items[k]
                proposed == sched.llmPlan.items[item.draft]
            IN  (/\ schemaValid(sched.llmPlan)
                 /\ proposed.isMainEvent
                 /\ item.event.id # "generated"
                 /\ \/ item.scheduledTime.start
                          # buildDatetime(sched.date, proposed.startTime)
                    \/ item.scheduledTime.end
                          # buildDatetime(sched.date, proposed.endTime))
                => \E w \in 1..Len(sched.result.warnings) :
                       sched.result.warnings[w] = "Time correction"

\* the pairs of returned items whose scheduled intervals overlap
OverlappingPairs(items) ==
    { p \in (1..Len(items)) \X (1..Len(items)) :
        /\ p[1] < p[2]
        /\ getTime(items[p[1]].scheduledTime.start) < getTime(items[p[2]].scheduledTime.end)
        /\ getTime(items[p[2]].scheduledTime.start) < getTime(items[p[1]].scheduledTime.end) }

\* C29: the returned items are in ascending order of scheduledTime.start, and
\* every pair of items with overlapping intervals has its time-overlap
\* warning: a warning names one pair, so there are at least as many
\* time-overlap warnings as overlapping pairs.
C29_SortedAndOverlapsWarned ==
    sched.stage = "done" =>
        LET items == sched.result.itinerary.items
        IN  /\ \A k \in 1..(Len(items) - 1) :
                  getTime(items[k].scheduledTime.start)
                      <= getTime(items[k + 1].scheduledTime.start)
            /\ CountWarnings(sched.result.warnings, "Time overlap")
                  >= Cardinality(OverlappingPairs(items))

\* sum of the per-person costs the draft gives for the returned items
RECURSIVE KeptCost(_, _, _)
KeptCost(items, draft, k) ==
    IF k > Len(items) THEN 0
    ELSE draft[items[k].draft].estimatedCostPerPerson + KeptCost(items, draft, k + 1)

\* C30: with budget maximum B and T the per-person cost of the kept items,
\* there is no budget warning when T <= B, exactly one "slightly over budget"
\* warning when B < T <= 1.2 * B, and exactly one "budget overrun" warning
\* when T > 1.2 * B; items dropped at the cutoff do not count in T.
C30_BudgetWarningMatchesTotal ==
    (sched.stage = "done" /\ schemaValid(sched.llmPlan) /\ sched.budgetMax # <<>>) =>
        LET T == KeptCost(sched.result.itinerary.items, sched.llmPlan.items, 1)
            B == sched.budgetMax[1]
            slightly == CountWarnings(sched.result.warnings, "Slightly over budget")
            overrun == CountWarnings(sched.result.warnings, "Budget overrun")
        IN  /\ T <= B => slightly = 0 /\ overrun = 0
            /\ (B < T /\ T * 10 <= B * 12) => slightly = 1 /\ overrun = 0
            /\ T * 10 > B * 12 => slightly = 0 /\ overrun = 1

\* a draft with an item dropped at the cutoff whose kept items cost exactly
\* 1.2 * B: one "slightly over budget" warning
C30_Witness ==
    /\ sched.stage = "done"
    /\ schemaValid(sched.llmPlan)
    /\ sched.budgetMax # <<>>
    /\ CountWarnings(sched.result.warnings, "Dropped") >= 1
    /\ KeptCost(sched.result.itinerary.items, sched.llmPlan.items, 1) * 10
          = sched.budgetMax[1] * 12
    /\ CountWarnings(sched.result.warnings, "Slightly over budget") = 1

\* the highest completeness score among the events at the given indices
MaxScore(events, members) ==
    CHOOSE m \in { scoreEventCompleteness(events[k]) : k \in members } :
        \A k \in members : scoreEventCompleteness(events[k]) <= m

\* the first of the given indices whose event has the highest score
FirstMostComplete(events, members) ==
    CHOOSE k \in members :
        /\ scoreEventCompleteness(events[k]) = MaxScore(events, members)
        /\ \A l \in members :
              scoreEventCompleteness(events[l]) = MaxScore(events, members) => k <= l

\* C31: after a pass, the groups of events found duplicate of the running
\* survivor partition the input; the output holds exactly one event per
\* group, in order, and it is the input event of the group with the highest
\* completeness score, the earliest one on a tie, unchanged.
C31_OneSurvivorPerGroup ==
    (disc.stage = "dedupe" /\ disc.passes = 1) =>
        LET events == disc.previous
            groups == disc.groups
        IN  /\ Len(disc.events) = Len(groups)
            /\ \A g \in 1..Len(groups) :
                  /\ disc.events[g] = groups[g].best
                  /\ groups[g].best = events[FirstMostComplete(events, groups[g].members)]
            /\ \A k \in 1..Len(events) :
                  \E g \in 1..Len(groups) :
                      /\ k \in groups[g].members
                      /\ \A h \in 1..Len(groups) : k \in groups[h].members => h = g

\* the tie: "Jazz" then "jazz ", equally complete, are one group and "Jazz"
\* is its survivor
C31_Witness ==
    /\ disc.stage = "dedupe"
    /\ disc.passes = 1
    /\ Len(disc.previous) = 2
    /\ disc.previous[1].id = "e1"
    /\ disc.previous[2].id = "e7"
    /\ Len(disc.events) = 1
    /\ disc.events[1].id = "e1"
    /\ disc.groups[1].members = {1, 2}

\* C32: with the external store configured, every state change made in
\* memory has its message handed to the store (in flight, stored, or failed
\* and logged), changes made while the session creation is in flight
\* included.
C32_EveryChangeIsSent ==
    (disc.stage = "persist" /\ disc.client) =>
        \A n \in 1..Len(disc.memory) : disc.messages[n] # "none"

\* C33: a request whose key was stored less than 5 minutes before is
\* answered from the cache without running a discovery tool; an entry older
\* than 5 minutes is not served: the tools run and their result is stored
\* anew; the answer is the slice [offset, offset + limit) of the full list
\* and total is its length, whatever limit and offset are.
C33_CacheServesFreshEntries ==
    (disc.stage = "cache" /\ disc.last.sent) =>
        LET r == disc.last
            entry == disc.cache[r.key]
            expected == MaxOf(0, MinOf(r.limit, Len(r.full) - r.offset))
        IN  /\ (r.age # <<>> /\ r.age[1] < CACHE_TTL_MS) =>
                  /\ r.cached
                  /\ ~r.toolsInvoked
                  /\ entry.present
                  /\ r.full = entry.events
                  /\ entry.timestamp = r.at - r.age[1]
            /\ (r.age # <<>> /\ r.age[1] > CACHE_TTL_MS) =>
                  /\ ~r.cached
                  /\ r.toolsInvoked
                  /\ entry = [present |-> TRUE, events |-> r.full, timestamp |-> r.at]
            /\ r.age = <<>> => ~r.cached /\ r.toolsInvoked
            /\ r.total = Len(r.full)
            /\ Len(r.events) = expected
            /\ \A i \in 1..Len(r.events) : r.events[i] = r.full[r.offset + i]

\* an entry stored 299999 ms before is served: offset 1 and limit 2 of a
\* list of three events
C33_Witness ==
    /\ disc.stage = "cache"
    /\ disc.last.sent
    /\ disc.last.cached
    /\ disc.last.age = <<299999>>
    /\ disc.last.offset = 1
    /\ disc.last.limit = 2
    /\ disc.last.events = <<"ev-b", "ev-c">>

\* position of a phase in the fixed order
PhaseRank(phase) ==
    CASE phase = "intent_parsing" -> 1
      [] phase = "event_discovery" -> 2
      [] phase = "recommendation" -> 3
      [] phase = "itinerary_planning" -> 4
      [] phase = "plan_approval" -> 5
      [] phase = "booking_execution" -> 6
      [] phase = "completed" -> 7

\* C34: the phase of a run only moves forward in the fixed order: no step
\* sets a phase that precedes the current one, and booking_execution is set
\* only when the phase is plan_approval.
C34_PhaseMovesForward ==
    [][disc.stage = "pipeline" =>
          /\ PhaseRank(disc'.currentPhase) >= PhaseRank(disc.currentPhase)
          /\ (disc'.currentPhase = "booking_execution"
              /\ disc.currentPhase # "booking_execution")
                => disc.currentPhase = "plan_approval"]_vars

\* an approved plan with a bookable item: the phase history ends with
\* plan_approval, booking_execution, completed
C34_Witness ==
    /\ disc.stage = "pipeline"
    /\ disc.step = "finished"
    /\ disc.approved = "yes"
    /\ disc.phases = <<"event_discovery", "recommendation", "itinerary_planning",
                       "plan_approval", "booking_execution", "completed">>

\* C35: when the pipeline of a run finishes, the phase of the run is
\* completed, on every path.
C35_FinishedIsCompleted ==
    (disc.stage = "pipeline" /\ disc.step = "finished") =>
        disc.currentPhase = "completed"

\* C36: no discovered event is attempted for booking more than once: the
\* items passed to the booking loop never hold two items anchored to the
\* same ranked event.
C36_NoEventBookedTwice ==
    disc.stage = "execution" =>
        \A j, k \in 1..Len(disc.bookableItems) :
            (\E e \in 1..Len(sched.rankedEvents) :
                /\ disc.bookableItems[j].event = sched.rankedEvents[e]
                /\ disc.bookableItems[k].event = sched.rankedEvents[e]) => j = k

\* C37: runs are isolated on the automation backend: the commands of one
\* run's booking attempt are not interleaved with those of the other run,
\* every command after the open acts on the page its own run opened, and a
\* close closes only the page of the run that issues it.
C37_RunsAreIsolated ==
    disc.stage = "browser" =>
        /\ \A i, j, k \in 1..Len(disc.log) :
              (i < j /\ j < k /\ disc.log[i].run = disc.log[k].run)
                 => disc.log[j].run = disc.log[i].run
        /\ \A i \in 1..Len(disc.log) :
              LET entry == disc.log[i]
              IN  (entry.cmd # "open" /\ entry.page # NoPage) => entry.page = entry.run

\* C38: for a valid draft and a budget maximum B, the budget status of the
\* plan metadata agrees with the per-person total T of the kept items:
\* within_budget exactly when T <= B, slightly_over exactly when
\* B < T <= 1.2 * B, over_budget exactly when T > 1.2 * B.
C38_BudgetStatusMatchesTotal ==
    (sched.stage = "done" /\ schemaValid(sched.llmPlan) /\ sched.budgetMax # <<>>) =>
        LET T == KeptCost(sched.result.itinerary.items, sched.llmPlan.items, 1)
            B == sched.budgetMax[1]
            status == sched.result.planMetadata.budgetStatus
        IN  /\ status = "within_budget" <=> T <= B
            /\ status = "slightly_over" <=> (B < T /\ T * 10 <= B * 12)
            /\ status = "over_budget" <=> T * 10 > B * 12

====
